---- MODULE Spec2Model ----
(***************************************************************************)
(* Model of the evaluation orchestration engine of ai-coding-evaluator:    *)
(* TaskSchedulerService (backend/src/services/task-scheduler.service.ts)   *)
(* with the MemoryStorageService it persists task status to.               *)
(*                                                                         *)
(* Node.js runs every call to completion up to its next `await`; the       *)
(* variable cur names the call whose synchronous block is executing, so    *)
(* that the states inside a block are visible to the properties but no     *)
(* other call runs in them.                                                *)
(***************************************************************************)
EXTENDS Integers, Sequences, FiniteSets, TLC

\* ---------------------------------------------------------------- bounds
NumExecs == 4          \* executeEvaluationTask calls in flight at once
TaskExecs == 2         \* calls in flight in the specification SpecTask
TaskIdCount == 2       \* task ids in the specification SpecTask
NumStored == 1         \* ids 1..NumStored were saved by createTask
MaxProducts == 2       \* task.aiProducts.length is 0..MaxProducts in SpecTask
MaxTypes == 1          \* task.questionTypes.length is 0..MaxTypes in SpecTask
MaxFollowUps == 1      \* task.maxFollowUps is 0 or MaxFollowUps
MaxQuestions == 1      \* questions one product's pipeline adds to a session
SampleScore == 3       \* the score an answered question receives
MaxCancels == 1        \* cancelTask calls in flight at once
ShapeProducts == 3     \* task.aiProducts.length is 0..ShapeProducts in SpecShape
ShapeTypes == 3        \* task.questionTypes.length is 0..ShapeTypes in SpecShape
ShapeFollowUps == 3    \* task.maxFollowUps is at most ShapeFollowUps in SpecShape
NegativeFollowUps == 2 \* and at least -NegativeFollowUps: no caller checks the field
PollProducts == 4      \* task.aiProducts.length is 0..PollProducts in SpecPoll
FlowMaxFollowUps == 4  \* task.maxFollowUps is 0..FlowMaxFollowUps in SpecFlow
FlowTypes == 2         \* task.questionTypes.length is 1..FlowTypes in SpecFlow
NumSupplied == 1       \* task.questions.length in SpecFlow
MaxGenerated == 1      \* questions generateQuestionBatch returns
RunProducts == 2       \* task.aiProducts.length is 1..RunProducts in SpecRun
RunTypes == 2          \* task.questionTypes.length is 1..RunTypes in SpecRun
RunFollowUps == 1      \* task.maxFollowUps is 0..RunFollowUps in SpecRun
RunSupplied == 3       \* task.questions.length in SpecRun
RunWork == 8           \* product calls one run makes at most in SpecRun
ScoreQuestions == 2    \* questions resolved for the question type in SpecScore
NegativeRaw == 1       \* the least number a sub-score field holds is -NegativeRaw
HighestRaw == 5        \* the greatest number a sub-score field holds in SpecParse

\* ------------------------------------------------------ program constants
maxConcurrentTasks == 3
followUpCap == 3       \* generateFollowUp answers null from this count on

Execs == 1..NumExecs
TaskIds == Execs        \* task ids: one for each call in flight
None == 0              \* value of cur while no block of a call is running

\* ----------------------------------------------------------------- state
VARIABLES
  pc,            \* pc[p]: position of execution p in executeEvaluationTask
  task,          \* task[p]: the EvaluationTask argument of execution p
  error,         \* error[p]: the exception caught at line 191
  prodIdx,       \* prodIdx[p]: index of the product the flow is processing
  stats,         \* stats[p]: totals over the sessions of execution p
  result,        \* result[p]: the TaskResult returned
  runningTasks,  \* Map<string, TaskProgress>: id -> entry, or NoEntry
  mine,          \* mine[p]: what became of the entry execution p created
  tasks,         \* MemoryStorageService.tasks: id -> persisted status
  cancelPc,      \* cancelPc[t]: position of cancelTask(t)
  cur,           \* call inside a synchronous block (p, -t for cancel, 0)
  polled,        \* last non-null answer of getTaskProgress to the poller
  \* one session of executeEvaluationFlow in detail (SpecFlow)
  fpc,           \* position in processQuestionType / handleFollowUps
  ftask,         \* the task: number of question types, maxFollowUps
  session,       \* the EvaluationSession: questions, responses, scores, status
  typeIdx,       \* index of the question type being processed
  questions,     \* the questions resolved for the question type
  qIdx,          \* index into questions
  response,      \* the response to the original question being processed
  followUpCount, \* handleFollowUps: followUpCount
  currentResponse, \* handleFollowUps: currentResponse
  nextId,        \* the next fresh uuid
  sessions,      \* executeEvaluationFlow: the sessions of the products before
  aiProducts,    \* task.aiProducts: per element, an object or null
  matching,      \* per question type, the pre-supplied questions it matches
  faulty,        \* history: a collaborator call of the flow has failed
  \* one call of ScoringEngineService.scoreResponse (SpecScore)
  spc,           \* position in scoreResponse
  analysis,      \* the ResponseAnalysis
  overall,       \* the overall score
  raw,           \* the five sub-score values of the parsed completion
  \* one evaluation of the question filter of processQuestionType (SpecMatch)
  qType,         \* q.type of a pre-supplied question, as characters
  questionType,  \* the question type being processed, as characters
  matched,       \* what the filter callback returned
  \* the pages of BrowserAutomationService (SpecPages)
  pages,         \* Map<string, Page>: product id -> page, or 0
  interaction    \* interaction[p]: the interactWithAIProduct call of p

engineVars == <<pc, task, error, prodIdx, stats, result, runningTasks, mine,
                tasks, cancelPc, cur, polled>>

flowVars == <<fpc, ftask, session, typeIdx, questions, qIdx, response,
              followUpCount, currentResponse, nextId, sessions, aiProducts,
              matching, faulty>>

scoreVars == <<spc, analysis, overall, raw>>

matchVars == <<qType, questionType, matched>>

pageVars == <<pages, interaction>>

vars == <<engineVars, flowVars, scoreVars, matchVars, pageVars>>

\* --------------------------------------------------------------- values
NoTask == [id |-> 0, nProducts |-> 0, nTypes |-> 0, hasUserProfile |-> FALSE,
           hasProgrammingLanguage |-> FALSE, maxFollowUps |-> 0]

NoResult == [status |-> "none", totalQuestions |-> 0, totalResponses |-> 0,
             averageScore |-> 0, error |-> "none"]

NoEntry == [taskId |-> 0, createdBy |-> 0, completedSteps |-> 0,
            totalSteps |-> 0, progress |-> 0, isCompleted |-> FALSE,
            finalResult |-> NoResult]

ZeroStats == [questions |-> 0, responses |-> 0, totalScore |-> 0,
              scoreCount |-> 0]

NoPoll == [taskId |-> 0, progress |-> 0, isCompleted |-> FALSE]

NoFlowTask == [nTypes |-> 0, maxFollowUps |-> 0]

NoSession == [questions |-> <<>>, responses |-> <<>>, scores |-> <<>>,
              status |-> "none"]

NoResponse == [id |-> 0, questionId |-> 0]

\* The products are those of the list AI_PRODUCTS, named by their index; a
\* page is named by the execution whose call created it.
ProductIds == 1..MaxProducts

NoPages == [i \in ProductIds |-> 0]

NoInteraction == [product |-> 0, page |-> 0, at |-> "none"]

\* A value of the parsed JSON: a number (kept in tenths), null, a missing
\* field (undefined), or a string that is or is not the text of a number.
JsNumber(tenths) == [kind |-> "number", numeric |-> TRUE, tenths |-> tenths]

JsNull == [kind |-> "null", numeric |-> FALSE, tenths |-> 0]

JsUndefined == [kind |-> "undefined", numeric |-> FALSE, tenths |-> 0]

JsText == [kind |-> "string", numeric |-> FALSE, tenths |-> 0]

\* The string "3".
JsNumeral == [kind |-> "string", numeric |-> TRUE, tenths |-> 30]

\* No completion parsed yet.
NoRaw == [accuracy |-> JsUndefined, completeness |-> JsUndefined,
          clarity |-> JsUndefined, usefulness |-> JsUndefined,
          codeQuality |-> JsUndefined]

NoAnalysis == [accuracy |-> 0, completeness |-> 0, clarity |-> 0,
               usefulness |-> 0, codeQuality |-> 0]

\* Tasks a caller may pass.  Shape(i, a, c, u, l, f): id, number of
\* products, number of question types, userProfile and programmingLanguage
\* present, maxFollowUps.
Shape(i, a, c, u, l, f) ==
  [id |-> i, nProducts |-> a, nTypes |-> c, hasUserProfile |-> u,
   hasProgrammingLanguage |-> l, maxFollowUps |-> f]

\* Input of call p in Spec: the smallest valid task, under an id of its own.
CapTask(p) == Shape(p, 1, 1, TRUE, TRUE, 0)

\* Inputs of SpecTask: every valid shape, and the shapes with one defect.
TaskSpecIds == 1..TaskIdCount

ValidTasks ==
  { Shape(i, a, c, TRUE, TRUE, f) :
       i \in TaskSpecIds, a \in 1..MaxProducts, c \in 1..MaxTypes,
       f \in {0, MaxFollowUps} }

InvalidTasks ==
  UNION { { Shape(i, 0, 1, TRUE, TRUE, 0), Shape(i, 1, 0, TRUE, TRUE, 0),
            Shape(i, 1, 1, FALSE, TRUE, 0), Shape(i, 1, 1, TRUE, FALSE, 0) } :
          i \in TaskSpecIds }

ExecInputs == ValidTasks \cup InvalidTasks

\* Inputs of SpecShape: every shape of a task, valid or not, under one id.
ShapeInputs ==
  { Shape(1, a, c, u, l, f) :
       a \in 0..ShapeProducts, c \in 0..ShapeTypes, u \in BOOLEAN,
       l \in BOOLEAN, f \in (-NegativeFollowUps)..ShapeFollowUps }

\* ------------------------------------------------------------- helpers
\* Math.round(x / y) for x >= 0: floor(x / y + 1/2); a division by zero
\* yields Infinity.
Infinity == 1000000

JsRoundDiv(x, y) ==
  IF y = 0 THEN (IF x = 0 THEN 0 ELSE Infinity)
  ELSE IF y < 0 THEN (-(2 * x + y)) \div (-(2 * y))
  ELSE (2 * x + y) \div (2 * y)

Size(rt) == Cardinality({t \in TaskIds : rt[t] # NoEntry})

\* Variant: the comparison off by one.
AtCapacityOffByOne(rt) == Size(rt) > maxConcurrentTasks

\* `this.runningTasks.size >= this.maxConcurrentTasks`, line 111.
AtCapacity(rt) == Size(rt) >= maxConcurrentTasks

\* Variant: the entry is left in the map.
keepEntry(rt, id) == rt

\* `this.runningTasks.delete(taskId)`, lines 242 and 765.
deleteEntry(rt, id) == [rt EXCEPT ![id] = NoEntry]

\* MemoryStorageService.updateTask: no record, no change.
updateTask(store, id, status) ==
  IF store[id] = "absent" THEN store ELSE [store EXCEPT ![id] = status]

\* TaskSchedulerService.updateTaskStatus
updateTaskStatus(store, id, status) == updateTask(store, id, status)

\* Variant: the scoring step is not counted.
calculateTotalStepsNoScoring(t) ==
  t.nProducts * t.nTypes * (1 + t.maxFollowUps)

calculateTotalSteps(t) ==
  IF t.nProducts = 0 THEN 0
  ELSE IF t.nTypes = 0 THEN 0
  ELSE t.nProducts * t.nTypes * (1 + t.maxFollowUps + 1)

\* The progressObject of lines 119-128, created by execution p.
NewProgress(p, t) ==
  [taskId |-> t.id, createdBy |-> p, completedSteps |-> 0,
   totalSteps |-> calculateTotalSteps(t), progress |-> 0,
   isCompleted |-> FALSE, finalResult |-> NoResult]

\* updateProgress(taskId): acts on whatever entry the map holds for the id.
updateProgress(rt, id) ==
  IF rt[id] = NoEntry THEN rt
  ELSE [rt EXCEPT ![id].completedSteps = @ + 1,
                  ![id].progress = JsRoundDiv((rt[id].completedSteps + 1) * 100,
                                              rt[id].totalSteps)]

\* calculateTaskStatistics; averageScore is kept in hundredths.
calculateTaskStatistics(s) ==
  [totalQuestions |-> s.questions, totalResponses |-> s.responses,
   averageScore |-> IF s.scoreCount > 0
                    THEN JsRoundDiv(s.totalScore * 100, s.scoreCount)
                    ELSE 0]

FinalResult(status, st, err) ==
  [status |-> status, totalQuestions |-> st.totalQuestions,
   totalResponses |-> st.totalResponses, averageScore |-> st.averageScore,
   error |-> err]

ZeroResult(status, err) ==
  FinalResult(status,
              [totalQuestions |-> 0, totalResponses |-> 0, averageScore |-> 0],
              err)

\* `if (progress) { progress.isCompleted = true; progress.finalResult = ... }`
\* on the entry the map holds for the id.
WriteTerminal(rt, id, fr) ==
  IF rt[id] = NoEntry THEN rt
  ELSE [rt EXCEPT ![id].isCompleted = TRUE, ![id].finalResult = fr]

\* The guard of the finally block, lines 227-240.
FinallyGuard(rt, id) ==
  IF rt[id] # NoEntry /\ ~rt[id].isCompleted
  THEN WriteTerminal(rt, id,
                     ZeroResult("failed", "Task execution was interrupted"))
  ELSE rt

\* Bookkeeping of the entries, for the properties: the entry execution p
\* created is "live" until a terminal snapshot is written into it ("done";
\* "twice" if that happens again) or it leaves the map without one ("lost").
Snapshot(m, rt, id) ==
  IF rt[id] = NoEntry THEN m
  ELSE [m EXCEPT ![rt[id].createdBy] =
          IF @ = "live" THEN "done" ELSE "twice"]

Dropped(m, rt, id) ==
  IF rt[id] # NoEntry /\ ~rt[id].isCompleted
  THEN [m EXCEPT ![rt[id].createdBy] = "lost"]
  ELSE m

\* What the categories of one product add to its session: q questions
\* pushed, r of them answered and scored.
Outcome(q, r) ==
  [questions |-> q, responses |-> r, totalScore |-> r * SampleScore,
   scoreCount |-> r]

PipelineOutcomes ==
  { Outcome(q, r) : q \in 0..MaxQuestions, r \in 0..MaxQuestions } \ {Outcome(0, 1)}

CapOutcomes == { Outcome(1, 1) }

AddStats(s, o) ==
  [questions |-> s.questions + o.questions,
   responses |-> s.responses + o.responses,
   totalScore |-> s.totalScore + o.totalScore,
   scoreCount |-> s.scoreCount + o.scoreCount]

TaskArraysValid(t) == t.nProducts > 0 /\ t.nTypes > 0

\* Variant: the question types are not checked.
TaskValidNoTypeCheck(t) ==
  t.nProducts > 0 /\ t.hasUserProfile /\ t.hasProgrammingLanguage

TaskValid(t) ==
  TaskArraysValid(t) /\ t.hasUserProfile /\ t.hasProgrammingLanguage

\* ------------------------------------------------------------------ Init
Init ==
  /\ pc = [p \in Execs |-> "idle"]
  /\ task = [p \in Execs |-> NoTask]
  /\ error = [p \in Execs |-> "none"]
  /\ prodIdx = [p \in Execs |-> 0]
  /\ stats = [p \in Execs |-> ZeroStats]
  /\ result = [p \in Execs |-> NoResult]
  /\ runningTasks = [t \in TaskIds |-> NoEntry]
  /\ mine = [p \in Execs |-> "none"]
  /\ tasks = [t \in TaskIds |-> "absent"]
  /\ cancelPc = [t \in TaskIds |-> "idle"]
  /\ cur = None
  /\ polled = NoPoll
  /\ fpc = "off"
  /\ ftask = NoFlowTask
  /\ session = NoSession
  /\ typeIdx = 0
  /\ questions = <<>>
  /\ qIdx = 0
  /\ response = NoResponse
  /\ followUpCount = 0
  /\ currentResponse = NoResponse
  /\ nextId = 0
  /\ sessions = <<>>
  /\ aiProducts = <<>>
  /\ matching = <<>>
  /\ faulty = FALSE
  /\ spc = "off"
  /\ analysis = NoAnalysis
  /\ overall = 0
  /\ raw = NoRaw
  /\ qType = <<>>
  /\ questionType = <<>>
  /\ matched = "pending"
  /\ pages = NoPages
  /\ interaction = [p \in Execs |-> NoInteraction]

\* --------------------------------------------- executeEvaluationTask
\* Lines 79-116: validation, capacity check, and up to the first await.  A
\* failed check throws into the catch block, whose updateTaskStatus(FAILED)
\* runs before its await.
ExecCallEngine(p, t) ==
  /\ cur = None
  /\ pc[p] = "idle"
  /\ \A q \in Execs : q < p => pc[q] # "idle"
  /\ task' = [task EXCEPT ![p] = t]
  /\ IF ~TaskValid(t)
     THEN /\ error' = [error EXCEPT ![p] = "validation"]
          /\ tasks' = updateTaskStatus(tasks, t.id, "failed")
          /\ pc' = [pc EXCEPT ![p] = "catch"]
     ELSE IF AtCapacity(runningTasks)
     THEN /\ error' = [error EXCEPT ![p] = "capacity"]
          /\ tasks' = updateTaskStatus(tasks, t.id, "failed")
          /\ pc' = [pc EXCEPT ![p] = "catch"]
     ELSE /\ error' = error
          /\ tasks' = updateTaskStatus(tasks, t.id, "running")
          /\ pc' = [pc EXCEPT ![p] = "admit"]
  /\ UNCHANGED <<prodIdx, stats, result, runningTasks, mine, cancelPc,
                 cur, polled>>

ExecCall(p, t) ==
  /\ ExecCallEngine(p, t)
  /\ UNCHANGED flowVars
  /\ UNCHANGED scoreVars
  /\ UNCHANGED matchVars
  /\ UNCHANGED pageVars

\* Lines 118-130: after the await, the progress entry is created and set.
Admit(p) ==
  /\ cur = None
  /\ pc[p] = "admit"
  /\ runningTasks' = [runningTasks EXCEPT
                        ![task[p].id] = NewProgress(p, task[p])]
  /\ mine' = [Dropped(mine, runningTasks, task[p].id) EXCEPT ![p] = "live"]
  /\ pc' = [pc EXCEPT ![p] = "created"]
  /\ cur' = p
  /\ UNCHANGED <<task, error, prodIdx, stats, result, tasks, cancelPc, polled>>
  /\ UNCHANGED flowVars
  /\ UNCHANGED scoreVars
  /\ UNCHANGED matchVars
  /\ UNCHANGED pageVars

\* Lines 147, 249-266: executeEvaluationFlow starts in the same block: its
\* own array check, then the first product's updateProgress and session.
FlowStartEngine(p) ==
  /\ cur = p
  /\ pc[p] = "created"
  /\ IF ~TaskArraysValid(task[p])
     THEN /\ error' = [error EXCEPT ![p] = "flow"]
          /\ tasks' = updateTaskStatus(tasks, task[p].id, "failed")
          /\ pc' = [pc EXCEPT ![p] = "catch"]
          /\ UNCHANGED <<runningTasks, prodIdx>>
     ELSE /\ runningTasks' = updateProgress(runningTasks, task[p].id)
          /\ prodIdx' = [prodIdx EXCEPT ![p] = 1]
          /\ pc' = [pc EXCEPT ![p] = "flow"]
          /\ UNCHANGED <<error, tasks>>
  /\ cur' = None
  /\ UNCHANGED <<task, stats, result, mine, cancelPc, polled>>

FlowStart(p) ==
  /\ FlowStartEngine(p)
  /\ UNCHANGED flowVars
  /\ UNCHANGED scoreVars
  /\ UNCHANGED matchVars
  /\ UNCHANGED pageVars

\* Lines 269-278 and 262-266: the categories of the current product have
\* added o to its session, the session is saved, and the loop starts the
\* next product.
NextProductEngine(p, o) ==
  /\ cur = None
  /\ pc[p] = "flow"
  /\ prodIdx[p] < task[p].nProducts
  /\ stats' = [stats EXCEPT ![p] = AddStats(@, o)]
  /\ runningTasks' = updateProgress(runningTasks, task[p].id)
  /\ prodIdx' = [prodIdx EXCEPT ![p] = @ + 1]
  /\ UNCHANGED <<pc, task, error, result, mine, tasks, cancelPc, cur, polled>>

NextProduct(p, o) ==
  /\ NextProductEngine(p, o)
  /\ UNCHANGED flowVars
  /\ UNCHANGED scoreVars
  /\ UNCHANGED matchVars
  /\ UNCHANGED pageVars

\* Lines 269-278, 289 and 150-153: the last product is done, the flow
\* returns its sessions, and the status COMPLETED is persisted.
FlowReturnEngine(p, o) ==
  /\ cur = None
  /\ pc[p] = "flow"
  /\ prodIdx[p] = task[p].nProducts
  /\ stats' = [stats EXCEPT ![p] = AddStats(@, o)]
  /\ tasks' = updateTaskStatus(tasks, task[p].id, "completed")
  /\ pc' = [pc EXCEPT ![p] = "completing"]
  /\ UNCHANGED <<task, error, prodIdx, result, runningTasks, mine, cancelPc,
                 cur, polled>>

FlowReturn(p, o) ==
  /\ FlowReturnEngine(p, o)
  /\ UNCHANGED flowVars
  /\ UNCHANGED scoreVars
  /\ UNCHANGED matchVars
  /\ UNCHANGED pageVars

\* Lines 147 and 191-194: an exception escapes executeEvaluationFlow.
FlowThrows(p) ==
  /\ cur = None
  /\ pc[p] = "flow"
  /\ error' = [error EXCEPT ![p] = "flow"]
  /\ tasks' = updateTaskStatus(tasks, task[p].id, "failed")
  /\ pc' = [pc EXCEPT ![p] = "catch"]
  /\ UNCHANGED <<task, prodIdx, stats, result, runningTasks, mine, cancelPc,
                 cur, polled>>
  /\ UNCHANGED flowVars
  /\ UNCHANGED scoreVars
  /\ UNCHANGED matchVars
  /\ UNCHANGED pageVars

\* Variant: a run in which a collaborator call failed ends FAILED.
CompleteFailsOnFault(p) ==
  /\ cur = None
  /\ pc[p] = "completing"
  /\ LET fr == FinalResult(IF faulty THEN "failed" ELSE "completed",
                           calculateTaskStatistics(stats[p]),
                           "none")
     IN /\ runningTasks' = WriteTerminal(runningTasks, task[p].id, fr)
        /\ result' = [result EXCEPT ![p] = fr]
  /\ mine' = Snapshot(mine, runningTasks, task[p].id)
  /\ pc' = [pc EXCEPT ![p] = "finally"]
  /\ cur' = p
  /\ UNCHANGED <<task, error, prodIdx, stats, tasks, cancelPc, polled>>
  /\ UNCHANGED flowVars
  /\ UNCHANGED scoreVars
  /\ UNCHANGED matchVars
  /\ UNCHANGED pageVars

\* Variant: an await between the terminal snapshot and the return.
CompleteThenAwaits(p) ==
  /\ cur = None
  /\ pc[p] = "completing"
  /\ LET fr == FinalResult("completed", calculateTaskStatistics(stats[p]),
                           "none")
     IN /\ runningTasks' = WriteTerminal(runningTasks, task[p].id, fr)
        /\ result' = [result EXCEPT ![p] = fr]
  /\ mine' = Snapshot(mine, runningTasks, task[p].id)
  /\ pc' = [pc EXCEPT ![p] = "finally"]
  /\ cur' = None
  /\ UNCHANGED <<task, error, prodIdx, stats, tasks, cancelPc, polled>>
  /\ UNCHANGED flowVars
  /\ UNCHANGED scoreVars
  /\ UNCHANGED matchVars
  /\ UNCHANGED pageVars

\* Lines 155-190: the COMPLETED result and terminal snapshot.
Complete(p) ==
  /\ cur = None
  /\ pc[p] = "completing"
  /\ LET fr == FinalResult("completed", calculateTaskStatistics(stats[p]),
                           "none")
     IN /\ runningTasks' = WriteTerminal(runningTasks, task[p].id, fr)
        /\ result' = [result EXCEPT ![p] = fr]
  /\ mine' = Snapshot(mine, runningTasks, task[p].id)
  /\ pc' = [pc EXCEPT ![p] = "finally"]
  /\ cur' = p
  /\ UNCHANGED <<task, error, prodIdx, stats, tasks, cancelPc, polled>>
  /\ UNCHANGED flowVars
  /\ UNCHANGED scoreVars
  /\ UNCHANGED matchVars
  /\ UNCHANGED pageVars

\* Lines 196-224: the FAILED result and terminal snapshot of the catch block.
CatchWrite(p) ==
  /\ cur = None
  /\ pc[p] = "catch"
  /\ LET fr == ZeroResult("failed", error[p])
     IN /\ runningTasks' = WriteTerminal(runningTasks, task[p].id, fr)
        /\ result' = [result EXCEPT ![p] = fr]
  /\ mine' = Snapshot(mine, runningTasks, task[p].id)
  /\ pc' = [pc EXCEPT ![p] = "finally"]
  /\ cur' = p
  /\ UNCHANGED <<task, error, prodIdx, stats, tasks, cancelPc, polled>>
  /\ UNCHANGED flowVars
  /\ UNCHANGED scoreVars
  /\ UNCHANGED matchVars
  /\ UNCHANGED pageVars

\* Lines 225-243: the finally block.
Finally(p) ==
  /\ cur = p
  /\ pc[p] = "finally"
  /\ LET guarded == FinallyGuard(runningTasks, task[p].id)
     IN /\ runningTasks' = deleteEntry(guarded, task[p].id)
        /\ mine' = IF guarded = runningTasks THEN mine
                   ELSE Snapshot(mine, runningTasks, task[p].id)
  /\ pc' = [pc EXCEPT ![p] = "returned"]
  /\ UNCHANGED <<task, error, prodIdx, stats, result, tasks, cancelPc, cur,
                 polled>>
  /\ UNCHANGED flowVars
  /\ UNCHANGED scoreVars
  /\ UNCHANGED matchVars
  /\ UNCHANGED pageVars

\* The TaskResult goes to the caller; the locals of the call are gone.
Return(p) ==
  /\ cur = p
  /\ pc[p] = "returned"
  /\ pc' = [pc EXCEPT ![p] = "idle"]
  /\ task' = [task EXCEPT ![p] = NoTask]
  /\ error' = [error EXCEPT ![p] = "none"]
  /\ prodIdx' = [prodIdx EXCEPT ![p] = 0]
  /\ stats' = [stats EXCEPT ![p] = ZeroStats]
  /\ result' = [result EXCEPT ![p] = NoResult]
  /\ mine' = [mine EXCEPT ![p] = "none"]
  /\ cur' = None
  /\ UNCHANGED <<runningTasks, tasks, cancelPc, polled>>
  /\ UNCHANGED flowVars
  /\ UNCHANGED scoreVars
  /\ UNCHANGED matchVars
  /\ UNCHANGED pageVars

\* ---------------------------------------------------------- cancelTask
\* Lines 746-748: updateTaskStatus(CANCELLED), then the await.
CancelCall(t) ==
  /\ cur = None
  /\ cancelPc[t] = "idle"
  /\ Cardinality({u \in TaskIds : cancelPc[u] # "idle"}) < MaxCancels
  /\ tasks' = updateTaskStatus(tasks, t, "cancelled")
  /\ cancelPc' = [cancelPc EXCEPT ![t] = "await"]
  /\ UNCHANGED <<pc, task, error, prodIdx, stats, result, runningTasks, mine,
                 cur, polled>>
  /\ UNCHANGED flowVars
  /\ UNCHANGED scoreVars
  /\ UNCHANGED matchVars
  /\ UNCHANGED pageVars

\* Lines 750-763: the CANCELLED terminal snapshot.
CancelWrite(t) ==
  /\ cur = None
  /\ cancelPc[t] = "await"
  /\ runningTasks' = WriteTerminal(runningTasks, t,
                                   ZeroResult("cancelled", "none"))
  /\ mine' = Snapshot(mine, runningTasks, t)
  /\ cancelPc' = [cancelPc EXCEPT ![t] = "delete"]
  /\ cur' = -t
  /\ UNCHANGED <<pc, task, error, prodIdx, stats, result, tasks, polled>>
  /\ UNCHANGED flowVars
  /\ UNCHANGED scoreVars
  /\ UNCHANGED matchVars
  /\ UNCHANGED pageVars

\* Line 765: the entry is deleted.
CancelDelete(t) ==
  /\ cur = -t
  /\ cancelPc[t] = "delete"
  /\ runningTasks' = deleteEntry(runningTasks, t)
  /\ mine' = Dropped(mine, runningTasks, t)
  /\ cancelPc' = [cancelPc EXCEPT ![t] = "idle"]
  /\ cur' = None
  /\ UNCHANGED <<pc, task, error, prodIdx, stats, result, tasks, polled>>
  /\ UNCHANGED flowVars
  /\ UNCHANGED scoreVars
  /\ UNCHANGED matchVars
  /\ UNCHANGED pageVars

\* ------------------------------------------------------ getTaskProgress
\* Lines 715-734, called by a poller that watches one task id and keeps the
\* last progress it was given.
getTaskProgress(t) ==
  /\ cur = None
  /\ polled.taskId \in {0, t}
  /\ runningTasks[t] # NoEntry
  /\ polled' = [taskId |-> t, progress |-> runningTasks[t].progress,
                isCompleted |-> runningTasks[t].isCompleted]
  /\ UNCHANGED <<pc, task, error, prodIdx, stats, result, runningTasks, mine,
                 tasks, cancelPc, cur>>
  /\ UNCHANGED flowVars
  /\ UNCHANGED scoreVars
  /\ UNCHANGED matchVars
  /\ UNCHANGED pageVars

\* ------------------------------------------------------- specifications
\* Spec: calls with distinct task ids, the smallest valid task, no task
\* saved in the store.
Next ==
  \/ \E p \in Execs : ExecCall(p, CapTask(p))
  \/ \E p \in Execs : Admit(p)
  \/ \E p \in Execs : FlowStart(p)
  \/ \E p \in Execs : \E o \in CapOutcomes : FlowReturn(p, o)
  \/ \E p \in Execs : FlowThrows(p)
  \/ \E p \in Execs : Complete(p)
  \/ \E p \in Execs : CatchWrite(p)
  \/ \E p \in Execs : Finally(p)
  \/ \E p \in Execs : Return(p)
  \/ \E t \in TaskIds : CancelCall(t)
  \/ \E t \in TaskIds : CancelWrite(t)
  \/ \E t \in TaskIds : CancelDelete(t)

Spec == Init /\ [][Next]_vars

\* SpecTask: few calls, every task shape, ids 1..NumStored saved in the
\* store by createTask (status PENDING).
TaskInit ==
  /\ pc = [p \in Execs |-> "idle"]
  /\ task = [p \in Execs |-> NoTask]
  /\ error = [p \in Execs |-> "none"]
  /\ prodIdx = [p \in Execs |-> 0]
  /\ stats = [p \in Execs |-> ZeroStats]
  /\ result = [p \in Execs |-> NoResult]
  /\ runningTasks = [t \in TaskIds |-> NoEntry]
  /\ mine = [p \in Execs |-> "none"]
  /\ tasks = [t \in TaskIds |-> IF t <= NumStored THEN "pending" ELSE "absent"]
  /\ cancelPc = [t \in TaskIds |-> "idle"]
  /\ cur = None
  /\ polled = NoPoll
  /\ fpc = "off"
  /\ ftask = NoFlowTask
  /\ session = NoSession
  /\ typeIdx = 0
  /\ questions = <<>>
  /\ qIdx = 0
  /\ response = NoResponse
  /\ followUpCount = 0
  /\ currentResponse = NoResponse
  /\ nextId = 0
  /\ sessions = <<>>
  /\ aiProducts = <<>>
  /\ matching = <<>>
  /\ faulty = FALSE
  /\ spc = "off"
  /\ analysis = NoAnalysis
  /\ overall = 0
  /\ raw = NoRaw
  /\ qType = <<>>
  /\ questionType = <<>>
  /\ matched = "pending"
  /\ pages = NoPages
  /\ interaction = [p \in Execs |-> NoInteraction]

TaskNext ==
  \/ \E p \in 1..TaskExecs : \E t \in ExecInputs : ExecCall(p, t)
  \/ \E p \in 1..TaskExecs : Admit(p)
  \/ \E p \in 1..TaskExecs : FlowStart(p)
  \/ \E p \in 1..TaskExecs : \E o \in PipelineOutcomes : NextProduct(p, o)
  \/ \E p \in 1..TaskExecs : \E o \in PipelineOutcomes : FlowReturn(p, o)
  \/ \E p \in 1..TaskExecs : FlowThrows(p)
  \/ \E p \in 1..TaskExecs : Complete(p)
  \/ \E p \in 1..TaskExecs : CatchWrite(p)
  \/ \E p \in 1..TaskExecs : Finally(p)
  \/ \E p \in 1..TaskExecs : Return(p)
  \/ \E t \in TaskSpecIds : CancelCall(t)
  \/ \E t \in TaskSpecIds : CancelWrite(t)
  \/ \E t \in TaskSpecIds : CancelDelete(t)

SpecTask == TaskInit /\ [][TaskNext]_vars

\* SpecShape: one call at a time, every task shape, the task saved in the
\* store by createTask.
ShapeNext ==
  \/ \E t \in ShapeInputs : ExecCall(1, t)
  \/ Admit(1)
  \/ FlowStart(1)
  \/ \E o \in CapOutcomes : NextProduct(1, o)
  \/ \E o \in CapOutcomes : FlowReturn(1, o)
  \/ FlowThrows(1)
  \/ Complete(1)
  \/ CatchWrite(1)
  \/ Finally(1)
  \/ Return(1)
  \/ CancelCall(1)
  \/ CancelWrite(1)
  \/ CancelDelete(1)

SpecShape == TaskInit /\ [][ShapeNext]_vars

\* SpecPoll: calls that name one task id, as those of
\* TaskController.executeTask do ('current-task', maxFollowUps >= 1, the
\* task not saved in the store), with the poller of
\* TaskController.getTaskProgress.
CurrentTask == 1

PollInputs ==
  { Shape(CurrentTask, a, 1, TRUE, TRUE, MaxFollowUps) : a \in 0..PollProducts }

PollNext ==
  \/ \E p \in 1..TaskExecs : \E t \in PollInputs : ExecCall(p, t)
  \/ \E p \in 1..TaskExecs : Admit(p)
  \/ \E p \in 1..TaskExecs : FlowStart(p)
  \/ \E p \in 1..TaskExecs : \E o \in CapOutcomes : NextProduct(p, o)
  \/ \E p \in 1..TaskExecs : \E o \in CapOutcomes : FlowReturn(p, o)
  \/ \E p \in 1..TaskExecs : FlowThrows(p)
  \/ \E p \in 1..TaskExecs : Complete(p)
  \/ \E p \in 1..TaskExecs : CatchWrite(p)
  \/ \E p \in 1..TaskExecs : Finally(p)
  \/ \E p \in 1..TaskExecs : Return(p)
  \/ CancelCall(CurrentTask)
  \/ CancelWrite(CurrentTask)
  \/ CancelDelete(CurrentTask)
  \/ getTaskProgress(CurrentTask)

SpecPoll == Init /\ [][PollNext]_vars

\* ------------------------------------------------ one session, in detail
\* SpecFlow follows processQuestionType and handleFollowUps for the session
\* of one product.  The task has NumSupplied pre-supplied questions (ids
\* 1..NumSupplied); every other id is a fresh uuid.  No Feishu integration
\* is configured (feishuIntegration = null).
Question(id, level, parent) ==
  [id |-> id, followUpLevel |-> level, parentQuestionId |-> parent]

Response(id, questionId) == [id |-> id, questionId |-> questionId]

Score(responseId) == [responseId |-> responseId]

SuppliedIds == 1..NumSupplied

\* The pre-supplied questions a filter may keep, in task order.
SeqOfSet(S) ==
  CHOOSE q \in [1..Cardinality(S) -> S] :
    \A i, j \in 1..Cardinality(S) : i < j => q[i] < q[j]

SuppliedMatches ==
  { [i \in 1..Cardinality(S) |-> Question(SeqOfSet(S)[i], 0, 0)] :
      S \in (SUBSET SuppliedIds) \ {{}} }

\* Questions generateQuestionBatch returns: n questions with fresh ids.
GeneratedBatch(first, n) == [i \in 1..n |-> Question(first + i - 1, 0, 0)]

\* Variant: the generator's cap off by one.
GeneratorAnswersInclusive(count) == count <= followUpCap

\* generateFollowUp, lines 90-93: `if (followUpCount >= 3) return null`; below
\* the cap the generator may answer with a follow-up.
GeneratorAnswers(count) == count < followUpCap

\* Variant: the loop condition with <=.
FollowUpLoopGuardInclusive(count, max) == count <= max

\* `while (followUpCount < task.maxFollowUps)`, line 490.
FollowUpLoopGuard(count, max) == count < max

\* session.questions.push etc.
PushQuestion(s, q) == [s EXCEPT !.questions = Append(@, q)]
PushResponse(s, r) == [s EXCEPT !.responses = Append(@, r)]
PushScore(s, sc) == [s EXCEPT !.scores = Append(@, sc)]

FlowInit ==
  /\ pc = [p \in Execs |-> "idle"]
  /\ task = [p \in Execs |-> NoTask]
  /\ error = [p \in Execs |-> "none"]
  /\ prodIdx = [p \in Execs |-> 0]
  /\ stats = [p \in Execs |-> ZeroStats]
  /\ result = [p \in Execs |-> NoResult]
  /\ runningTasks = [t \in TaskIds |-> NoEntry]
  /\ mine = [p \in Execs |-> "none"]
  /\ tasks = [t \in TaskIds |-> "absent"]
  /\ cancelPc = [t \in TaskIds |-> "idle"]
  /\ cur = None
  /\ polled = NoPoll
  /\ fpc = "type"
  /\ \E c \in 1..FlowTypes : \E f \in 0..FlowMaxFollowUps :
       ftask = [nTypes |-> c, maxFollowUps |-> f]
  /\ session = [questions |-> <<>>, responses |-> <<>>, scores |-> <<>>,
                status |-> "running"]
  /\ typeIdx = 1
  /\ questions = <<>>
  /\ qIdx = 0
  /\ response = NoResponse
  /\ followUpCount = 0
  /\ currentResponse = NoResponse
  /\ nextId = NumSupplied + 1
  /\ sessions = <<>>
  /\ aiProducts = <<>>
  /\ matching = <<>>
  /\ faulty = FALSE
  /\ spc = "off"
  /\ analysis = NoAnalysis
  /\ overall = 0
  /\ raw = NoRaw
  /\ qType = <<>>
  /\ questionType = <<>>
  /\ matched = "pending"
  /\ pages = NoPages
  /\ interaction = [p \in Execs |-> NoInteraction]

\* Lines 312-386 and 427-440: pre-supplied questions match the question
\* type; the first is pushed and put to the product.
ResolveSupplied(qs) ==
  /\ fpc = "type"
  /\ typeIdx <= ftask.nTypes
  /\ questions' = qs
  /\ qIdx' = 1
  /\ session' = PushQuestion(session, qs[1])
  /\ fpc' = "ask"
  /\ UNCHANGED <<faulty, sessions, aiProducts, matching, ftask, typeIdx, response, followUpCount, currentResponse,
                 nextId>>
  /\ UNCHANGED engineVars
  /\ UNCHANGED scoreVars
  /\ UNCHANGED matchVars
  /\ UNCHANGED pageVars

\* Lines 388-404: no pre-supplied question matches; generation is awaited.
ResolveNone ==
  /\ fpc = "type"
  /\ typeIdx <= ftask.nTypes
  /\ fpc' = "generate"
  /\ UNCHANGED <<faulty, sessions, aiProducts, matching, ftask, session, typeIdx, questions, qIdx, response,
                 followUpCount, currentResponse, nextId>>
  /\ UNCHANGED engineVars
  /\ UNCHANGED scoreVars
  /\ UNCHANGED matchVars
  /\ UNCHANGED pageVars

\* Lines 406-412 and 427-440: n >= 1 questions were generated.
GenerateReturns(n) ==
  /\ fpc = "generate"
  /\ questions' = GeneratedBatch(nextId, n)
  /\ nextId' = nextId + n
  /\ qIdx' = 1
  /\ session' = PushQuestion(session, questions'[1])
  /\ fpc' = "ask"
  /\ UNCHANGED <<faulty, sessions, aiProducts, matching, ftask, typeIdx, response, followUpCount, currentResponse>>
  /\ UNCHANGED engineVars
  /\ UNCHANGED scoreVars
  /\ UNCHANGED matchVars
  /\ UNCHANGED pageVars

\* Variant: a failed generation ends the session's question types.
GenerateFailsEndsSession ==
  /\ fpc = "generate"
  /\ typeIdx' = ftask.nTypes + 1
  /\ fpc' = "type"
  /\ faulty' = TRUE
  /\ UNCHANGED <<sessions, aiProducts, matching, ftask, session, questions, qIdx, response, followUpCount,
                 currentResponse, nextId>>
  /\ UNCHANGED engineVars
  /\ UNCHANGED scoreVars
  /\ UNCHANGED matchVars
  /\ UNCHANGED pageVars

\* Lines 413-424: generation returns nothing or throws; the type is skipped.
GenerateFails ==
  /\ fpc = "generate"
  /\ typeIdx' = typeIdx + 1
  /\ fpc' = "type"
  /\ faulty' = TRUE
  /\ UNCHANGED <<sessions, aiProducts, matching, ftask, session, questions, qIdx, response, followUpCount,
                 currentResponse, nextId>>
  /\ UNCHANGED engineVars
  /\ UNCHANGED scoreVars
  /\ UNCHANGED matchVars
  /\ UNCHANGED pageVars

\* Lines 437-446 and 487-502: the product answers; handleFollowUps starts.
AskReturns ==
  /\ fpc = "ask"
  /\ LET r == Response(nextId, questions[qIdx].id)
     IN /\ session' = PushResponse(session, r)
        /\ response' = r
        /\ currentResponse' = r
  /\ nextId' = nextId + 1
  /\ followUpCount' = 0
  /\ fpc' = IF FollowUpLoopGuard(0, ftask.maxFollowUps)
            THEN "followUp" ELSE "score"
  /\ UNCHANGED <<faulty, sessions, aiProducts, matching, ftask, typeIdx, questions, qIdx>>
  /\ UNCHANGED engineVars
  /\ UNCHANGED scoreVars
  /\ UNCHANGED matchVars
  /\ UNCHANGED pageVars

\* Lines 437 and 469-475: interactWithAIProduct throws; the catch of
\* processQuestionType ends the question type.
AskThrows ==
  /\ fpc = "ask"
  /\ typeIdx' = typeIdx + 1
  /\ fpc' = "type"
  /\ faulty' = TRUE
  /\ UNCHANGED <<sessions, aiProducts, matching, ftask, session, questions, qIdx, response, followUpCount,
                 currentResponse, nextId>>
  /\ UNCHANGED engineVars
  /\ UNCHANGED scoreVars
  /\ UNCHANGED matchVars
  /\ UNCHANGED pageVars

\* Variant: every follow-up is stamped with depth 1.
FollowUpGeneratedDepthOne ==
  /\ fpc = "followUp"
  /\ GeneratorAnswers(followUpCount)
  /\ session' = PushQuestion(session,
                  Question(nextId, 1, questions[qIdx].id))
  /\ nextId' = nextId + 1
  /\ fpc' = "followUpAsk"
  /\ UNCHANGED <<faulty, sessions, aiProducts, matching, ftask, typeIdx, questions, qIdx, response, followUpCount,
                 currentResponse>>
  /\ UNCHANGED engineVars
  /\ UNCHANGED scoreVars
  /\ UNCHANGED matchVars
  /\ UNCHANGED pageVars

\* Lines 493-518, generateFollowUp lines 83-134: a follow-up is generated
\* (only below followUpCap), stamped, pushed and put to the product.
FollowUpGenerated ==
  /\ fpc = "followUp"
  /\ GeneratorAnswers(followUpCount)
  /\ session' = PushQuestion(session,
                  Question(nextId, followUpCount + 1, questions[qIdx].id))
  /\ nextId' = nextId + 1
  /\ fpc' = "followUpAsk"
  /\ UNCHANGED <<faulty, sessions, aiProducts, matching, ftask, typeIdx, questions, qIdx, response, followUpCount,
                 currentResponse>>
  /\ UNCHANGED engineVars
  /\ UNCHANGED scoreVars
  /\ UNCHANGED matchVars
  /\ UNCHANGED pageVars

\* Lines 504-506: generateFollowUp answers null; the loop ends.
FollowUpNull ==
  /\ fpc = "followUp"
  /\ fpc' = "score"
  /\ UNCHANGED <<faulty, sessions, aiProducts, matching, ftask, session, typeIdx, questions, qIdx, response,
                 followUpCount, currentResponse, nextId>>
  /\ UNCHANGED engineVars
  /\ UNCHANGED scoreVars
  /\ UNCHANGED matchVars
  /\ UNCHANGED pageVars

\* Lines 515-521: the follow-up is answered.
FollowUpAnswered ==
  /\ fpc = "followUpAsk"
  /\ LET fq == session.questions[Len(session.questions)]
     IN session' = PushResponse(session, Response(nextId, fq.id))
  /\ nextId' = nextId + 1
  /\ fpc' = "followUpScore"
  /\ UNCHANGED <<faulty, sessions, aiProducts, matching, ftask, typeIdx, questions, qIdx, response, followUpCount,
                 currentResponse>>
  /\ UNCHANGED engineVars
  /\ UNCHANGED scoreVars
  /\ UNCHANGED matchVars
  /\ UNCHANGED pageVars

\* Lines 546-553: an exception in the iteration ends the loop.
FollowUpAskThrows ==
  /\ fpc = "followUpAsk"
  /\ fpc' = "score"
  /\ faulty' = TRUE
  /\ UNCHANGED <<sessions, aiProducts, matching, ftask, session, typeIdx, questions, qIdx, response,
                 followUpCount, currentResponse, nextId>>
  /\ UNCHANGED engineVars
  /\ UNCHANGED scoreVars
  /\ UNCHANGED matchVars
  /\ UNCHANGED pageVars

\* Lines 524-539 and 490: the follow-up's score is pushed, the follow-up
\* response becomes currentResponse, the count grows, and the loop condition
\* is tested again.
FollowUpScored ==
  /\ fpc = "followUpScore"
  /\ LET followUpResponse == session.responses[Len(session.responses)]
     IN /\ session' = PushScore(session, Score(followUpResponse.id))
        /\ currentResponse' = followUpResponse
  /\ followUpCount' = followUpCount + 1
  /\ fpc' = IF FollowUpLoopGuard(followUpCount + 1, ftask.maxFollowUps)
            THEN "followUp" ELSE "score"
  /\ UNCHANGED <<faulty, sessions, aiProducts, matching, ftask, typeIdx, questions, qIdx, response, nextId>>
  /\ UNCHANGED engineVars
  /\ UNCHANGED scoreVars
  /\ UNCHANGED matchVars
  /\ UNCHANGED pageVars

\* Variant: the score is stamped with the id of currentResponse.
ScoredCurrentResponse ==
  /\ fpc = "score"
  /\ LET s1 == PushScore(session, Score(currentResponse.id))
     IN IF qIdx < Len(questions)
        THEN /\ session' = PushQuestion(s1, questions[qIdx + 1])
             /\ qIdx' = qIdx + 1
             /\ fpc' = "ask"
             /\ UNCHANGED typeIdx
        ELSE /\ session' = s1
             /\ typeIdx' = typeIdx + 1
             /\ fpc' = "type"
             /\ UNCHANGED qIdx
  /\ UNCHANGED <<faulty, sessions, aiProducts, matching, ftask, questions, response, followUpCount, currentResponse,
                 nextId>>
  /\ UNCHANGED engineVars
  /\ UNCHANGED scoreVars
  /\ UNCHANGED matchVars
  /\ UNCHANGED pageVars

\* Lines 448-467 and 428-440: the original response is scored; the next
\* question of the type is pushed and asked, or the type is done.
Scored ==
  /\ fpc = "score"
  /\ LET s1 == PushScore(session, Score(response.id))
     IN IF qIdx < Len(questions)
        THEN /\ session' = PushQuestion(s1, questions[qIdx + 1])
             /\ qIdx' = qIdx + 1
             /\ fpc' = "ask"
             /\ UNCHANGED typeIdx
        ELSE /\ session' = s1
             /\ typeIdx' = typeIdx + 1
             /\ fpc' = "type"
             /\ UNCHANGED qIdx
  /\ UNCHANGED <<faulty, sessions, aiProducts, matching, ftask, questions, response, followUpCount, currentResponse,
                 nextId>>
  /\ UNCHANGED engineVars
  /\ UNCHANGED scoreVars
  /\ UNCHANGED matchVars
  /\ UNCHANGED pageVars

\* Lines 274-278: every question type is processed; the session completes.
SessionCompleted ==
  /\ fpc = "type"
  /\ typeIdx > ftask.nTypes
  /\ session' = [session EXCEPT !.status = "completed"]
  /\ fpc' = "done"
  /\ UNCHANGED <<faulty, sessions, aiProducts, matching, ftask, typeIdx, questions, qIdx, response, followUpCount,
                 currentResponse, nextId>>
  /\ UNCHANGED engineVars
  /\ UNCHANGED scoreVars
  /\ UNCHANGED matchVars
  /\ UNCHANGED pageVars

FlowNext ==
  \/ \E qs \in SuppliedMatches : ResolveSupplied(qs)
  \/ ResolveNone
  \/ \E n \in 1..MaxGenerated : GenerateReturns(n)
  \/ GenerateFails
  \/ AskReturns
  \/ AskThrows
  \/ FollowUpGenerated
  \/ FollowUpNull
  \/ FollowUpAnswered
  \/ FollowUpAskThrows
  \/ FollowUpScored
  \/ Scored
  \/ SessionCompleted

SpecFlow == FlowInit /\ [][FlowNext]_vars

\* ------------------------------------- one execution, with its flow
\* SpecRun follows one call of executeEvaluationTask for a stored task
\* through executeEvaluationFlow, product by product.  An element of
\* task.aiProducts is an object or null (the controllers pass the array of
\* the request body on unchecked).  The task has RunSupplied pre-supplied
\* questions (ids 1..RunSupplied); matching[c] are the ones the filter of
\* lines 315-372 keeps for question type c.
RunTasks ==
  { Shape(1, a, c, TRUE, TRUE, f) :
      a \in 1..RunProducts, c \in 1..RunTypes, f \in 0..RunFollowUps }

ProductKinds(n) == [1..n -> {"object", "null"}]

MatchSets == { 1..n : n \in 0..RunSupplied }

Matchings(c) == [1..c -> MatchSets]

\* The questions a session of the task asks at most, over the question types
\* 1..c, and the calls of the product a run of the task makes at most.
RECURSIVE Asked(_, _)
Asked(m, c) ==
  IF c = 0 THEN 0
  ELSE Asked(m, c - 1)
         + (IF m[c] = {} THEN MaxGenerated ELSE Cardinality(m[c]))

RunWeight(t, m) == t.nProducts * Asked(m, t.nTypes) * (1 + t.maxFollowUps)

\* Variant: the filter keeps only the first match.
SuppliedQuestionsFirstOnly(S) ==
  [i \in 1..1 |-> Question(SeqOfSet(S)[1], 0, 0)]

\* task.questions.filter(...), lines 315-372, in task order.
SuppliedQuestions(S) ==
  [i \in 1..Cardinality(S) |-> Question(SeqOfSet(S)[i], 0, 0)]

\* createEvaluationSession, lines 609-628.
NewSession(i) ==
  [productId |-> i, questions |-> <<>>, responses |-> <<>>, scores |-> <<>>,
   status |-> "running"]

\* What calculateTaskStatistics (lines 685-710) reads of a session; every
\* score counts SampleScore.
SessionOutcome(s) ==
  [questions |-> Len(s.questions), responses |-> Len(s.responses),
   totalScore |-> Len(s.scores) * SampleScore, scoreCount |-> Len(s.scores)]

\* executeEvaluationTask is called with a task.
RunCall(t, prods, m) ==
  /\ ExecCallEngine(1, t)
  /\ aiProducts' = prods
  /\ matching' = m
  /\ UNCHANGED <<fpc, ftask, session, typeIdx, questions, qIdx, response,
                 followUpCount, currentResponse, nextId, sessions, faulty>>
  /\ UNCHANGED scoreVars
  /\ UNCHANGED matchVars
  /\ UNCHANGED pageVars

\* Lines 249-267: the flow starts; the session of the first product is
\* created and pushed.
RunFlowStart ==
  /\ cur = 1
  /\ pc[1] = "created"
  /\ aiProducts[1] = "object"
  /\ FlowStartEngine(1)
  /\ fpc' = "type"
  /\ ftask' = [nTypes |-> task[1].nTypes,
               maxFollowUps |-> task[1].maxFollowUps]
  /\ session' = NewSession(1)
  /\ sessions' = <<>>
  /\ typeIdx' = 1
  /\ questions' = <<>>
  /\ qIdx' = 0
  /\ response' = NoResponse
  /\ followUpCount' = 0
  /\ currentResponse' = NoResponse
  /\ nextId' = RunSupplied + 1
  /\ faulty' = FALSE
  /\ UNCHANGED <<aiProducts, matching>>
  /\ UNCHANGED scoreVars
  /\ UNCHANGED matchVars
  /\ UNCHANGED pageVars

\* Lines 264, 279-284 and 191-194: the first element of aiProducts is null;
\* `product.name` throws inside the try, `product.id` throws inside its
\* catch block, and the exception leaves executeEvaluationFlow.
FirstProductThrows ==
  /\ cur = 1
  /\ pc[1] = "created"
  /\ aiProducts[1] = "null"
  /\ error' = [error EXCEPT ![1] = "flow"]
  /\ tasks' = updateTaskStatus(tasks, task[1].id, "failed")
  /\ pc' = [pc EXCEPT ![1] = "catch"]
  /\ cur' = None
  /\ fpc' = "thrown"
  /\ UNCHANGED <<task, prodIdx, stats, result, runningTasks, mine, cancelPc,
                 polled>>
  /\ UNCHANGED <<ftask, session, typeIdx, questions, qIdx, response,
                 followUpCount, currentResponse, nextId, sessions,
                 aiProducts, matching, faulty>>
  /\ UNCHANGED scoreVars
  /\ UNCHANGED matchVars
  /\ UNCHANGED pageVars

\* Lines 312-386: the filter keeps pre-supplied questions for the type.
RunResolveSupplied ==
  /\ fpc = "type"
  /\ typeIdx <= ftask.nTypes
  /\ matching[typeIdx] # {}
  /\ ResolveSupplied(SuppliedQuestions(matching[typeIdx]))

\* Lines 388-404: the filter keeps nothing.
RunResolveNone ==
  /\ fpc = "type"
  /\ typeIdx <= ftask.nTypes
  /\ matching[typeIdx] = {}
  /\ ResolveNone

\* Lines 278 and 262-267: the session is saved; the loop goes on to the
\* next product, whose session is created and pushed.
RunNextProduct ==
  /\ fpc = "done"
  /\ prodIdx[1] < task[1].nProducts
  /\ aiProducts[prodIdx[1] + 1] = "object"
  /\ NextProductEngine(1, SessionOutcome(session))
  /\ sessions' = Append(sessions, session)
  /\ session' = NewSession(prodIdx[1] + 1)
  /\ fpc' = "type"
  /\ typeIdx' = 1
  /\ questions' = <<>>
  /\ qIdx' = 0
  /\ response' = NoResponse
  /\ followUpCount' = 0
  /\ currentResponse' = NoResponse
  /\ UNCHANGED <<ftask, nextId, aiProducts, matching, faulty>>
  /\ UNCHANGED scoreVars
  /\ UNCHANGED matchVars
  /\ UNCHANGED pageVars

\* Lines 278, 264, 279-284 and 191-194: the next element of aiProducts is
\* null; the exception leaves executeEvaluationFlow.
LaterProductThrows ==
  /\ cur = None
  /\ pc[1] = "flow"
  /\ fpc = "done"
  /\ prodIdx[1] < task[1].nProducts
  /\ aiProducts[prodIdx[1] + 1] = "null"
  /\ error' = [error EXCEPT ![1] = "flow"]
  /\ tasks' = updateTaskStatus(tasks, task[1].id, "failed")
  /\ pc' = [pc EXCEPT ![1] = "catch"]
  /\ sessions' = Append(sessions, session)
  /\ fpc' = "thrown"
  /\ UNCHANGED <<task, prodIdx, stats, result, runningTasks, mine, cancelPc,
                 cur, polled>>
  /\ UNCHANGED <<ftask, session, typeIdx, questions, qIdx, response,
                 followUpCount, currentResponse, nextId, aiProducts,
                 matching, faulty>>
  /\ UNCHANGED scoreVars
  /\ UNCHANGED matchVars
  /\ UNCHANGED pageVars

\* Lines 278, 289 and 150-153: the last session is saved, the flow returns
\* its sessions, and the status COMPLETED is persisted.
RunFlowReturn ==
  /\ fpc = "done"
  /\ FlowReturnEngine(1, SessionOutcome(session))
  /\ sessions' = Append(sessions, session)
  /\ fpc' = "returned"
  /\ UNCHANGED <<ftask, session, typeIdx, questions, qIdx, response,
                 followUpCount, currentResponse, nextId, aiProducts,
                 matching, faulty>>
  /\ UNCHANGED scoreVars
  /\ UNCHANGED matchVars
  /\ UNCHANGED pageVars

RunNext ==
  \/ \E t \in RunTasks :
       \E prods \in ProductKinds(t.nProducts) :
         \E m \in Matchings(t.nTypes) :
           RunWeight(t, m) <= RunWork /\ RunCall(t, prods, m)
  \/ Admit(1)
  \/ RunFlowStart
  \/ FirstProductThrows
  \/ RunResolveSupplied
  \/ RunResolveNone
  \/ \E n \in 1..MaxGenerated : GenerateReturns(n)
  \/ GenerateFails
  \/ AskReturns
  \/ AskThrows
  \/ FollowUpGenerated
  \/ FollowUpNull
  \/ FollowUpAnswered
  \/ FollowUpAskThrows
  \/ FollowUpScored
  \/ Scored
  \/ SessionCompleted
  \/ RunNextProduct
  \/ LaterProductThrows
  \/ RunFlowReturn
  \/ Complete(1)
  \/ CatchWrite(1)
  \/ Finally(1)

SpecRun == TaskInit /\ [][RunNext]_vars

\* --------------------------------------------- one scoreResponse call
\* SpecScore follows one call of ScoringEngineService.scoreResponse.  The
\* weighted sum is computed in IEEE-754 binary64, as JavaScript does.  A
\* double x with 0 <= x <= 4 is the pair <<hi, lo>> that stands for
\* (hi * 2^28 + lo) * 2^-55, with 0 <= lo < 2^28; every double in that range
\* is such a pair, and an exact product or sum of the ones used here is too.
Limb == 2^28

\* The doubles nearest to the weights 0.3, 0.25, 0.2, 0.15 and 0.1
\* (0.3 = 5404319552844595 * 2^-54, 0.25 = 2^-2,
\* 0.2 = 3602879701896397 * 2^-54, 0.15 = 5404319552844595 * 2^-55,
\* 0.1 = 3602879701896397 * 2^-55).
weights ==
  [accuracy |-> <<40265318, 107374182>>,
   completeness |-> <<33554432, 0>>,
   clarity |-> <<26843545, 161061274>>,
   usefulness |-> <<20132659, 53687091>>,
   codeQuality |-> <<13421772, 214748365>>]

Carry(hi, lo) == <<hi + (lo \div Limb), lo % Limb>>

\* The number of low bits of the pair a double of this magnitude cannot
\* hold (53 significant bits): none below 0.25, 1 in [0.25, 0.5), 2 in
\* [0.5, 1), 3 in [1, 2), 4 in [2, 4), 5 from 4 on.
DropBits(hi) ==
  IF hi >= 2^29 THEN 5
  ELSE IF hi >= 2^28 THEN 4
  ELSE IF hi >= 2^27 THEN 3
  ELSE IF hi >= 2^26 THEN 2
  ELSE IF hi >= 2^25 THEN 1
  ELSE 0

\* Rounding of an exact result to the nearest double, ties to even.
RoundToDouble(x) ==
  LET q == 2^DropBits(x[1])
      r == x[2] % q
      down == x[2] - r
      odd == (down \div q) % 2 = 1
  IN IF 2 * r > q \/ (2 * r = q /\ odd)
     THEN Carry(x[1], down + q)
     ELSE <<x[1], down>>

\* n * w for a sub-score n in 0..4 and a weight w.
DoubleTimes(n, w) == RoundToDouble(Carry(n * w[1], n * w[2]))

\* x + y
DoublePlus(x, y) == RoundToDouble(Carry(x[1] + y[1], x[2] + y[2]))

\* Math.round(x): floor(x + 1/2), exactly.
MathRound(x) == (x[1] + 2^26) \div 2^27

\* ScoringEngineService.calculateOverallScore: weightedScore starts at 0 and
\* the five products are added in this order.
calculateOverallScore(a) ==
  MathRound(
    DoublePlus(DoublePlus(DoublePlus(DoublePlus(
      DoubleTimes(a.accuracy, weights.accuracy),
      DoubleTimes(a.completeness, weights.completeness)),
      DoubleTimes(a.clarity, weights.clarity)),
      DoubleTimes(a.usefulness, weights.usefulness)),
      DoubleTimes(a.codeQuality, weights.codeQuality)))

\* The analyses parseAnalysisResult can return: validateScore leaves every
\* sub-score an integer in 0..4.
Analyses ==
  [accuracy : 0..4, completeness : 0..4, clarity : 0..4, usefulness : 0..4,
   codeQuality : 0..4]

\* Variant: the default analysis with the lowest sub-scores.
DefaultAnalysisLowest ==
  [accuracy |-> 0, completeness |-> 0, clarity |-> 0, usefulness |-> 0,
   codeQuality |-> 0]

\* The default analysis of the catch blocks of analyzeResponse and
\* parseAnalysisResult.
DefaultAnalysis ==
  [accuracy |-> 2, completeness |-> 2, clarity |-> 2, usefulness |-> 2,
   codeQuality |-> 2]

\* processQuestionType is at line 449: the first of the resolved questions
\* has been asked and answered, and scoreResponse is called.
ScoreInit ==
  /\ pc = [p \in Execs |-> "idle"]
  /\ task = [p \in Execs |-> NoTask]
  /\ error = [p \in Execs |-> "none"]
  /\ prodIdx = [p \in Execs |-> 0]
  /\ stats = [p \in Execs |-> ZeroStats]
  /\ result = [p \in Execs |-> NoResult]
  /\ runningTasks = [t \in TaskIds |-> NoEntry]
  /\ mine = [p \in Execs |-> "none"]
  /\ tasks = [t \in TaskIds |-> "absent"]
  /\ cancelPc = [t \in TaskIds |-> "idle"]
  /\ cur = None
  /\ polled = NoPoll
  /\ fpc = "score"
  /\ ftask = [nTypes |-> 1, maxFollowUps |-> 0]
  /\ session = [questions |-> <<Question(1, 0, 0)>>,
                responses |-> <<Response(ScoreQuestions + 1, 1)>>,
                scores |-> <<>>, status |-> "running"]
  /\ typeIdx = 1
  /\ \E n \in 1..ScoreQuestions :
       questions = [i \in 1..n |-> Question(i, 0, 0)]
  /\ qIdx = 1
  /\ response = Response(ScoreQuestions + 1, 1)
  /\ followUpCount = 0
  /\ currentResponse = Response(ScoreQuestions + 1, 1)
  /\ nextId = ScoreQuestions + 2
  /\ sessions = <<>>
  /\ aiProducts = <<>>
  /\ matching = <<>>
  /\ faulty = FALSE
  /\ spc = "analyze"
  /\ analysis = NoAnalysis
  /\ overall = 0
  /\ raw = NoRaw
  /\ qType = <<>>
  /\ questionType = <<>>
  /\ matched = "pending"
  /\ pages = NoPages
  /\ interaction = [p \in Execs |-> NoInteraction]

\* analyzeResponse, lines 80-104: the completion is parsed into an analysis.
AnalysisReturns(a) ==
  /\ spc = "analyze"
  /\ analysis' = a
  /\ spc' = "analyzed"
  /\ UNCHANGED <<overall, raw>>
  /\ UNCHANGED <<engineVars, flowVars, matchVars, pageVars>>

\* analyzeResponse, lines 105-119: the completion call throws or is empty;
\* the catch block returns the default analysis.
AnalysisThrows ==
  /\ spc = "analyze"
  /\ analysis' = DefaultAnalysis
  /\ spc' = "analyzed"
  /\ faulty' = TRUE
  /\ UNCHANGED <<overall, raw>>
  /\ UNCHANGED matchVars
  /\ UNCHANGED pageVars
  /\ UNCHANGED engineVars
  /\ UNCHANGED <<fpc, ftask, session, typeIdx, questions, qIdx, response,
                 followUpCount, currentResponse, nextId, sessions,
                 aiProducts, matching>>

\* scoreResponse, lines 35-58: the overall score; generateScoringReasoning
\* never throws; the ScoringResult is returned.
ScoreCalculated ==
  /\ spc = "analyzed"
  /\ overall' = calculateOverallScore(analysis)
  /\ spc' = "scored"
  /\ UNCHANGED <<analysis, raw>>
  /\ UNCHANGED <<engineVars, flowVars, matchVars, pageVars>>

\* scoreResponse lines 40-62 and processQuestionType lines 460-461, 428-440:
\* the ScoringResult is returned, stamped with the response id and pushed;
\* the next question of the type is pushed and asked, or the type is done.
ScoringResult(responseId, score, criteria) ==
  [responseId |-> responseId, score |-> score, criteria |-> criteria]

ScorePushed ==
  /\ spc = "scored"
  /\ fpc = "score"
  /\ LET s1 == PushScore(session,
                         ScoringResult(response.id, overall, analysis))
     IN IF qIdx < Len(questions)
        THEN /\ session' = PushQuestion(s1, questions[qIdx + 1])
             /\ qIdx' = qIdx + 1
             /\ fpc' = "ask"
             /\ UNCHANGED typeIdx
        ELSE /\ session' = s1
             /\ typeIdx' = typeIdx + 1
             /\ fpc' = "type"
             /\ UNCHANGED qIdx
  /\ spc' = "pushed"
  /\ UNCHANGED <<analysis, overall, raw>>
  /\ UNCHANGED matchVars
  /\ UNCHANGED pageVars
  /\ UNCHANGED <<ftask, questions, response, followUpCount, currentResponse,
                 nextId, sessions, aiProducts, matching, faulty>>
  /\ UNCHANGED engineVars

ScoreNext ==
  \/ \E a \in Analyses : AnalysisReturns(a)
  \/ AnalysisThrows
  \/ ScoreCalculated
  \/ ScorePushed

SpecScore == ScoreInit /\ [][ScoreNext]_vars

\* ------------------------------------- the filter of pre-supplied questions
\* SpecMatch follows one evaluation of the callback of task.questions.filter
\* (processQuestionType, lines 315-372) for a label q.type and a question
\* type.  A string is the sequence of its characters; a Chinese character is
\* written as its pinyin syllable (shi4 and shi2, jia and jia1 are different
\* characters).
LowerChar(c) ==
  IF c = "D" THEN "d" ELSE IF c = "P" THEN "p" ELSE c

\* String.prototype.toLowerCase
toLowerCase(s) == [i \in 1..Len(s) |-> LowerChar(s[i])]

\* String.prototype.includes
includes(s, t) ==
  \E i \in 0..(Len(s) - Len(t)) : SubSeq(s, i + 1, i + Len(t)) = t

\* Lines 332-338: learning, project, debugging, best_practices, performance.
typeMapping ==
  {
    <<<<"l", "e", "a", "r", "n", "i", "n", "g">>,
      {<<"xue", "xi", "bian", "cheng">>,
       <<"xue", "xi">>,
       <<"ji", "chu">>}>>,
    <<<<"p", "r", "o", "j", "e", "c", "t">>,
      {<<"xiang", "mu", "kai", "fa">>,
       <<"xiang", "mu">>,
       <<"kai", "fa">>}>>,
    <<<<"d", "e", "b", "u", "g", "g", "i", "n", "g">>,
      {<<"tiao", "shi4", "wen", "ti">>,
       <<"tiao", "shi4">>,
       <<"cuo", "wu">>}>>,
    <<<<"b", "e", "s", "t", "_", "p", "r", "a", "c", "t", "i", "c", "e", "s">>,
      {<<"zui", "jia1", "shi2", "jian">>,
       <<"gui", "fan">>,
       <<"shi2", "jian">>}>>,
    <<<<"p", "e", "r", "f", "o", "r", "m", "a", "n", "c", "e">>,
      {<<"xing", "neng", "you", "hua">>,
       <<"xing", "neng">>,
       <<"you", "hua">>}>> }

\* Lines 354-361: the keys are "bian cheng wen ti" (programming question),
\* "xue xi bian cheng", "xiang mu kai fa", "tiao shi wen ti", "zui jia1 shi2
\* jian" and "xing neng you hua".
reverseTypeMapping ==
  {
    <<<<"bian", "cheng", "wen", "ti">>,
      {<<"shou", "dong", "tian", "jia">>,
       <<"bian", "cheng">>,
       <<"dai", "ma">>,
       <<"kai", "fa">>}>>,
    <<<<"xue", "xi", "bian", "cheng">>,
      {<<"xue", "xi">>,
       <<"ji", "chu">>,
       <<"ru", "men">>}>>,
    <<<<"xiang", "mu", "kai", "fa">>,
      {<<"xiang", "mu">>,
       <<"kai", "fa">>,
       <<"shi2", "jian">>}>>,
    <<<<"tiao", "shi4", "wen", "ti">>,
      {<<"tiao", "shi4">>,
       <<"cuo", "wu">>,
       <<"wen", "ti", "jie", "jue">>}>>,
    <<<<"zui", "jia1", "shi2", "jian">>,
      {<<"gui", "fan">>,
       <<"shi2", "jian">>,
       <<"biao", "zhun">>}>>,
    <<<<"xing", "neng", "you", "hua">>,
      {<<"xing", "neng">>,
       <<"you", "hua">>,
       <<"xiao", "lv">>}>> }

\* Lines 349-351: the label "shou dong tian jia" (added by hand) and the
\* question type "bian cheng wen ti".
ManualLabel == <<"shou", "dong", "tian", "jia">>

ProgrammingQuestionType == <<"bian", "cheng", "wen", "ti">>

\* `key === questionType && values.some(v => qTypeLower.includes(v))`,
\* lines 341-345 and 364-368.
TableMatches(table, ql, t) ==
  \E e \in table : e[1] = t /\ \E v \in e[2] : includes(ql, v)

\* The callback of lines 315-371.
TypeMatches(q, t) ==
  \/ q = t
  \/ includes(toLowerCase(q), toLowerCase(t))
  \/ includes(toLowerCase(t), toLowerCase(q))
  \/ TableMatches(typeMapping, toLowerCase(q), t)
  \/ q = ManualLabel /\ t = ProgrammingQuestionType
  \/ TableMatches(reverseTypeMapping, toLowerCase(q), t)

\* The labels of the two tables, and two labels with a capital.
Labels ==
  UNION { {e[1]} \cup e[2] : e \in typeMapping \cup reverseTypeMapping }
    \cup {<<"D", "e", "b", "u", "g", "g", "i", "n", "g">>, <<"P", "e", "r", "f", "o", "r", "m", "a", "n", "c", "e">>}

MatchInit ==
  /\ pc = [p \in Execs |-> "idle"]
  /\ task = [p \in Execs |-> NoTask]
  /\ error = [p \in Execs |-> "none"]
  /\ prodIdx = [p \in Execs |-> 0]
  /\ stats = [p \in Execs |-> ZeroStats]
  /\ result = [p \in Execs |-> NoResult]
  /\ runningTasks = [t \in TaskIds |-> NoEntry]
  /\ mine = [p \in Execs |-> "none"]
  /\ tasks = [t \in TaskIds |-> "absent"]
  /\ cancelPc = [t \in TaskIds |-> "idle"]
  /\ cur = None
  /\ polled = NoPoll
  /\ fpc = "off"
  /\ ftask = NoFlowTask
  /\ session = NoSession
  /\ typeIdx = 0
  /\ questions = <<>>
  /\ qIdx = 0
  /\ response = NoResponse
  /\ followUpCount = 0
  /\ currentResponse = NoResponse
  /\ nextId = 0
  /\ sessions = <<>>
  /\ aiProducts = <<>>
  /\ matching = <<>>
  /\ faulty = FALSE
  /\ spc = "off"
  /\ analysis = NoAnalysis
  /\ overall = 0
  /\ raw = NoRaw
  /\ qType \in Labels
  /\ questionType \in Labels
  /\ matched = "pending"
  /\ pages = NoPages
  /\ interaction = [p \in Execs |-> NoInteraction]

\* The callback returns for the question.
FilterCallback ==
  /\ matched = "pending"
  /\ matched' = IF TypeMatches(qType, questionType) THEN "kept" ELSE "dropped"
  /\ UNCHANGED <<qType, questionType>>
  /\ UNCHANGED <<engineVars, flowVars, scoreVars, pageVars>>

MatchNext == FilterCallback

SpecMatch == MatchInit /\ [][MatchNext]_vars

\* ------------------------------------------------- parseAnalysisResult
\* SpecParse follows one call of scoreResponse in which the completion holds
\* a JSON object; its five sub-score fields are drawn from RawValues.
RawValues ==
  {JsNull, JsUndefined, JsText, JsNumeral} \cup
    { JsNumber(10 * n) : n \in (-NegativeRaw)..HighestRaw }

Dimensions ==
  {"accuracy", "completeness", "clarity", "usefulness", "codeQuality"}

\* Number(score): null gives 0, undefined and a string that is not a number
\* give NaN.
ToNumber(v) ==
  IF v.kind = "number" THEN [nan |-> FALSE, tenths |-> v.tenths]
  ELSE IF v.kind = "null" THEN [nan |-> FALSE, tenths |-> 0]
  ELSE IF v.kind = "string" /\ v.numeric
       THEN [nan |-> FALSE, tenths |-> v.tenths]
  ELSE [nan |-> TRUE, tenths |-> 0]

\* validateScore, lines 242-248.
validateScore(v) ==
  LET numScore == ToNumber(v)
  IN IF numScore.nan \/ numScore.tenths < 0 \/ numScore.tenths > 40
     THEN 2
     ELSE (numScore.tenths + 5) \div 10

\* parseAnalysisResult, lines 212-217.
parseAnalysisResult(parsed) == [d \in Dimensions |-> validateScore(parsed[d])]

ParseInit ==
  /\ pc = [p \in Execs |-> "idle"]
  /\ task = [p \in Execs |-> NoTask]
  /\ error = [p \in Execs |-> "none"]
  /\ prodIdx = [p \in Execs |-> 0]
  /\ stats = [p \in Execs |-> ZeroStats]
  /\ result = [p \in Execs |-> NoResult]
  /\ runningTasks = [t \in TaskIds |-> NoEntry]
  /\ mine = [p \in Execs |-> "none"]
  /\ tasks = [t \in TaskIds |-> "absent"]
  /\ cancelPc = [t \in TaskIds |-> "idle"]
  /\ cur = None
  /\ polled = NoPoll
  /\ fpc = "score"
  /\ ftask = [nTypes |-> 1, maxFollowUps |-> 0]
  /\ session = [questions |-> <<Question(1, 0, 0)>>,
                responses |-> <<Response(2, 1)>>,
                scores |-> <<>>, status |-> "running"]
  /\ typeIdx = 1
  /\ questions = <<Question(1, 0, 0)>>
  /\ qIdx = 1
  /\ response = Response(2, 1)
  /\ followUpCount = 0
  /\ currentResponse = Response(2, 1)
  /\ nextId = 3
  /\ sessions = <<>>
  /\ aiProducts = <<>>
  /\ matching = <<>>
  /\ faulty = FALSE
  /\ spc = "analyze"
  /\ analysis = NoAnalysis
  /\ overall = 0
  /\ raw \in [Dimensions -> RawValues]
  /\ qType = <<>>
  /\ questionType = <<>>
  /\ matched = "pending"
  /\ pages = NoPages
  /\ interaction = [p \in Execs |-> NoInteraction]

\* analyzeResponse, lines 80-104, with parseAnalysisResult.
AnalysisParsed ==
  /\ spc = "analyze"
  /\ analysis' = parseAnalysisResult(raw)
  /\ spc' = "analyzed"
  /\ UNCHANGED <<overall, raw>>
  /\ UNCHANGED <<engineVars, flowVars, matchVars, pageVars>>

ParseNext ==
  \/ AnalysisParsed
  \/ ScoreCalculated
  \/ ScorePushed

SpecParse == ParseInit /\ [][ParseNext]_vars

\* --------------------------------------------- interactWithAIProduct
\* SpecPages: calls with task ids of their own, each task naming the first
\* nProducts products of AI_PRODUCTS and asking each one question, on the
\* one BrowserAutomationService of the scheduler.
PageInputs(p) == { t \in ValidTasks : t.id = p }

\* Lines 437-440 and part_000 269-276, 328-331: interactWithAIProduct is
\* called for the product of the session and looks its page up.
InteractCall(p) ==
  /\ cur = None
  /\ pc[p] = "flow"
  /\ interaction[p].at = "none"
  /\ LET id == prodIdx[p]
     IN interaction' = [interaction EXCEPT ![p] =
          IF pages[id] # 0
          THEN [product |-> id, page |-> pages[id], at |-> "driving"]
          ELSE [product |-> id, page |-> 0, at |-> "newPage"]]
  /\ UNCHANGED pages
  /\ UNCHANGED <<engineVars, flowVars, scoreVars, matchVars>>

\* part_000 lines 336-349: the new page is there and is put into the map.
PageCreated(p) ==
  /\ cur = None
  /\ interaction[p].at = "newPage"
  /\ pages' = [pages EXCEPT ![interaction[p].product] = p]
  /\ interaction' = [interaction EXCEPT ![p].page = p, ![p].at = "driving"]
  /\ UNCHANGED <<engineVars, flowVars, scoreVars, matchVars>>

\* part_000 lines 278-311: the page was driven through the question and the
\* response is returned.
InteractReturns(p) ==
  /\ cur = None
  /\ interaction[p].at = "driving"
  /\ interaction' = [interaction EXCEPT ![p].at = "done"]
  /\ UNCHANGED pages
  /\ UNCHANGED <<engineVars, flowVars, scoreVars, matchVars>>

\* part_000 lines 312-318: a step of the interaction throws.
InteractThrows(p) ==
  /\ cur = None
  /\ interaction[p].at \in {"newPage", "driving"}
  /\ interaction' = [interaction EXCEPT ![p].at = "failed"]
  /\ UNCHANGED pages
  /\ UNCHANGED <<engineVars, flowVars, scoreVars, matchVars>>

\* What the one question adds to the session of the product.
InteractionOutcome(p) ==
  Outcome(1, IF interaction[p].at = "done" THEN 1 ELSE 0)

PageNextProduct(p) ==
  /\ interaction[p].at \in {"done", "failed"}
  /\ NextProductEngine(p, InteractionOutcome(p))
  /\ interaction' = [interaction EXCEPT ![p] = NoInteraction]
  /\ UNCHANGED pages
  /\ UNCHANGED <<flowVars, scoreVars, matchVars>>

PageFlowReturn(p) ==
  /\ interaction[p].at \in {"done", "failed"}
  /\ FlowReturnEngine(p, InteractionOutcome(p))
  /\ interaction' = [interaction EXCEPT ![p] = NoInteraction]
  /\ UNCHANGED pages
  /\ UNCHANGED <<flowVars, scoreVars, matchVars>>

PagesNext ==
  \/ \E p \in 1..TaskExecs : \E t \in PageInputs(p) : ExecCall(p, t)
  \/ \E p \in 1..TaskExecs : Admit(p)
  \/ \E p \in 1..TaskExecs : FlowStart(p)
  \/ \E p \in 1..TaskExecs : InteractCall(p)
  \/ \E p \in 1..TaskExecs : PageCreated(p)
  \/ \E p \in 1..TaskExecs : InteractReturns(p)
  \/ \E p \in 1..TaskExecs : InteractThrows(p)
  \/ \E p \in 1..TaskExecs : PageNextProduct(p)
  \/ \E p \in 1..TaskExecs : PageFlowReturn(p)
  \/ \E p \in 1..TaskExecs : Complete(p)
  \/ \E p \in 1..TaskExecs : Finally(p)
  \/ \E p \in 1..TaskExecs : Return(p)

SpecPages == TaskInit /\ [][PagesNext]_vars

\* ================================================================ claims
\* C1: every admitted execution (one that created a tracker entry) has
\* exactly one terminal snapshot written into its entry: never a second one,
\* never removed or replaced without one, and when the call returns its
\* entry has received its snapshot.
C1_ExactlyOneTerminalSnapshot ==
  \A p \in Execs :
    /\ mine[p] \notin {"twice", "lost"}
    /\ pc[p] = "returned" => mine[p] \in {"none", "done"}

\* C2: the running-task map never holds more than maxConcurrentTasks
\* entries, under every interleaving of the calls.
C2_AtMostMaxConcurrent == Size(runningTasks) <= maxConcurrentTasks

\* C3: a call made while the map holds maxConcurrentTasks (or more) entries
\* is rejected at once with the capacity error and leaves the map as it is;
\* a rejected call never creates an entry, never starts the flow and ends
\* with the capacity failure; and a valid call made while the map holds
\* fewer entries (as after a finalization) passes admission.
C3_CapacityRejection ==
  /\ [](\A p \in Execs :
          error[p] = "capacity" =>
            /\ pc[p] \in {"catch", "finally", "returned"}
            /\ mine[p] = "none"
            /\ prodIdx[p] = 0
            /\ pc[p] \in {"finally", "returned"} =>
                 /\ result[p].status = "failed"
                 /\ result[p].error = "capacity")
  /\ [][\A p \in Execs :
          (pc[p] = "idle" /\ pc'[p] # "idle") =>
            IF Size(runningTasks) >= maxConcurrentTasks
            THEN /\ error'[p] = "capacity"
                 /\ pc'[p] = "catch"
                 /\ runningTasks' = runningTasks
            ELSE /\ error'[p] = "none"
                 /\ pc'[p] = "admit"]_vars

\* A call is being rejected for capacity while, one finalization later, the
\* next call has passed admission with a free slot in the map.
C3_Witness ==
  \E p, q \in Execs :
    /\ error[p] = "capacity"
    /\ pc[p] = "returned"
    /\ pc[q] = "admit"
    /\ Size(runningTasks) = maxConcurrentTasks - 1

\* C4: a call whose task has no product, no question type, no userProfile or
\* no programmingLanguage fails with the validation error, never starts the
\* flow and creates no tracker entry.
C4_ValidationRejects ==
  \A p \in Execs :
    ( /\ pc[p] # "idle"
      /\ \/ task[p].nProducts = 0
         \/ task[p].nTypes = 0
         \/ ~task[p].hasUserProfile
         \/ ~task[p].hasProgrammingLanguage ) =>
      /\ error[p] = "validation"
      /\ pc[p] \in {"catch", "finally", "returned"}
      /\ prodIdx[p] = 0
      /\ mine[p] = "none"
      /\ pc[p] \in {"finally", "returned"} =>
           /\ result[p].status = "failed"
           /\ result[p].error = "validation"
           /\ result[p].totalQuestions = 0

C4_Witness ==
  \E p \in Execs :
    /\ pc[p] = "returned"
    /\ task[p].nTypes = 0
    /\ task[p].nProducts = ShapeProducts
    /\ result[p].error = "validation"

\* C5: no step of a call that fails validation changes the persisted status
\* of any task or the running-task map.
C5_ValidationNoSideEffect ==
  [][\A p \in Execs :
       (error'[p] = "validation" /\ pc'[p] # pc[p]) =>
         /\ tasks' = tasks
         /\ runningTasks' = runningTasks]_vars

\* C6: once cancelTask has set the status of a task that is mid-run to
\* CANCELLED, no later step of that execution changes the persisted status.
C6_CancelledIsFinal ==
  [][\A p \in Execs :
       ( /\ pc[p] \in {"admit", "created", "flow", "completing", "catch",
                       "finally"}
         /\ tasks[task[p].id] = "cancelled"
         /\ pc'[p] # pc[p] ) =>
         tasks'[task[p].id] = "cancelled"]_vars

\* C7: when cancelTask finds the entry of the task, it writes the CANCELLED
\* terminal snapshot with zeroed statistics into it, then removes the entry;
\* if the map was at the cap, it is below the cap afterwards, and a call made
\* below the cap passes admission.
C7_CancelSnapshotAndRelease ==
  /\ [](\A t \in TaskIds :
          (cancelPc[t] = "delete" /\ runningTasks[t] # NoEntry) =>
            /\ runningTasks[t].isCompleted
            /\ runningTasks[t].finalResult.status = "cancelled"
            /\ runningTasks[t].finalResult.totalQuestions = 0
            /\ runningTasks[t].finalResult.totalResponses = 0
            /\ runningTasks[t].finalResult.averageScore = 0)
  /\ [][\A t \in TaskIds :
          /\ (cancelPc[t] = "await" /\ cancelPc'[t] = "delete"
                /\ runningTasks[t] # NoEntry) =>
               (runningTasks'[t] # NoEntry /\ runningTasks'[t].isCompleted)
          /\ (cancelPc[t] = "delete" /\ cancelPc'[t] = "idle") =>
               /\ runningTasks'[t] = NoEntry
               /\ \A u \in TaskIds \ {t} : runningTasks'[u] = runningTasks[u]
               /\ (runningTasks[t] # NoEntry
                     /\ Size(runningTasks) = maxConcurrentTasks) =>
                    /\ Size(runningTasks') = maxConcurrentTasks - 1
                    /\ cur' = None
          /\ \A p \in Execs :
               ( /\ pc[p] = "idle"
                 /\ pc'[p] # "idle"
                 /\ Size(runningTasks) < maxConcurrentTasks ) =>
                 pc'[p] = "admit"]_vars

\* cancelTask is about to release the slot of a running task while the map
\* is at the cap.
C7_Witness ==
  \E t \in TaskIds :
    /\ cancelPc[t] = "delete"
    /\ runningTasks[t].isCompleted
    /\ runningTasks[t].finalResult.status = "cancelled"
    /\ Size(runningTasks) = maxConcurrentTasks
    /\ \E p \in Execs : task[p].id = t /\ pc[p] = "flow"

\* C8: the entry a valid task is admitted with has totalSteps =
\* |aiProducts| * |questionTypes| * (maxFollowUps + 2), completedSteps 0,
\* progress 0 and isCompleted false.
C8_InitialEntry ==
  \A p \in Execs :
    pc[p] = "created" =>
      /\ runningTasks[task[p].id].taskId = task[p].id
      /\ runningTasks[task[p].id].totalSteps =
           task[p].nProducts * task[p].nTypes * (task[p].maxFollowUps + 2)
      /\ runningTasks[task[p].id].completedSteps = 0
      /\ runningTasks[task[p].id].progress = 0
      /\ ~runningTasks[task[p].id].isCompleted

C8_Witness ==
  \E p \in Execs :
    /\ pc[p] = "created"
    /\ task[p].nProducts = 2
    /\ task[p].nTypes = 3
    /\ task[p].maxFollowUps = 1
    /\ runningTasks[task[p].id].totalSteps = 18

\* C9: the progress getTaskProgress gives for a task id never exceeds 100
\* (first half of the claim; the second half, that it never decreases from
\* one answer to the next, fails in the same runs when the entry is
\* replaced).
C9_PolledProgressAtMost100 == polled.progress <= 100

\* C10, as stated: in a session, the follow-up questions whose parent is a
\* given original question number at most task.maxFollowUps.
C10_FollowUpsPerParent ==
  \A i \in 1..Len(session.questions) :
    session.questions[i].followUpLevel = 0 =>
      Cardinality({ j \in 1..Len(session.questions) :
                      /\ session.questions[j].followUpLevel > 0
                      /\ session.questions[j].parentQuestionId =
                           session.questions[i].id }) <= ftask.maxFollowUps

\* C10, amended: each run of the follow-up loop (each time an original
\* question is processed) appends at most task.maxFollowUps follow-up
\* questions, all with that question as parent: after each original question
\* in the session, at most maxFollowUps follow-ups come before the next
\* original.
C10_FollowUpsPerRun ==
  \A i \in 1..Len(session.questions) :
    session.questions[i].followUpLevel = 0 =>
      /\ Cardinality({ j \in (i + 1)..Len(session.questions) :
                         \A k \in (i + 1)..j :
                           session.questions[k].followUpLevel > 0 })
           <= ftask.maxFollowUps
      /\ \A j \in (i + 1)..Len(session.questions) :
           (\A k \in (i + 1)..j : session.questions[k].followUpLevel > 0) =>
             session.questions[j].parentQuestionId = session.questions[i].id

\* A completed session in which an original question has exactly
\* maxFollowUps = 2 follow-ups and the generator was asked no further one.
C10_Witness ==
  /\ fpc = "done"
  /\ ftask.maxFollowUps = 2
  /\ \E i \in 1..Len(session.questions) :
       /\ session.questions[i].followUpLevel = 0
       /\ i + 2 = Len(session.questions)
       /\ session.questions[i + 1].followUpLevel = 1
       /\ session.questions[i + 2].followUpLevel = 2

C12_OverallIsRoundedWeightedSum ==
  spc = "scored" =>
    /\ overall \in 0..4
    /\ overall = (30 * analysis.accuracy + 25 * analysis.completeness
                  + 20 * analysis.clarity + 15 * analysis.usefulness
                  + 10 * analysis.codeQuality + 50) \div 100

\* C13: a run in which no collaborator call failed, of a task with
\* maxFollowUps = 0, one question type and N >= 1 pre-supplied questions
\* matching it, returns one session per target assistant, each with exactly
\* N questions, N responses and N scores, none of them a follow-up.
C13_SessionsOfFaultlessRun ==
  (/\ fpc = "returned"
   /\ ~faulty
   /\ task[1].nTypes = 1
   /\ task[1].maxFollowUps = 0
   /\ matching[1] # {})
  => /\ Len(sessions) = task[1].nProducts
     /\ \A i \in 1..Len(sessions) :
          /\ sessions[i].productId = i
          /\ Len(sessions[i].questions) = Cardinality(matching[1])
          /\ Len(sessions[i].responses) = Cardinality(matching[1])
          /\ Len(sessions[i].scores) = Cardinality(matching[1])
          /\ \A k \in 1..Len(sessions[i].questions) :
               /\ sessions[i].questions[k].followUpLevel = 0
               /\ sessions[i].questions[k].parentQuestionId = 0
               /\ sessions[i].questions[k].id = k
               /\ sessions[i].responses[k].questionId = k
               /\ sessions[i].scores[k].responseId = sessions[i].responses[k].id

\* The spec's case: 2 assistants, 3 matching pre-supplied questions, and
\* the flow has returned its 2 sessions.
C13_Witness ==
  /\ fpc = "returned"
  /\ ~faulty
  /\ task[1].nProducts = 2
  /\ task[1].nTypes = 1
  /\ task[1].maxFollowUps = 0
  /\ matching[1] = 1..3
  /\ Len(sessions) = 2
  /\ Len(sessions[2].scores) = 3

\* C14: when generation fails for a question type without a matching
\* pre-supplied question, the type is skipped: the step adds nothing to the
\* session and goes on to the next question type; and a run over target
\* assistants that are all objects ends COMPLETED, with one completed
\* session per assistant, whatever was skipped.
C14_EmptyGenerationSkipsCategory ==
  /\ [][(fpc = "generate" /\ fpc' = "type") =>
          /\ session' = session
          /\ sessions' = sessions
          /\ typeIdx' = typeIdx + 1]_vars
  /\ []((/\ pc[1] \in {"finally", "returned"}
         /\ \A i \in DOMAIN aiProducts : aiProducts[i] = "object")
        => /\ result[1].status = "completed"
           /\ tasks[1] = "completed"
           /\ Len(sessions) = task[1].nProducts
           /\ \A i \in 1..Len(sessions) :
                /\ sessions[i].productId = i
                /\ sessions[i].status = "completed")

\* Two assistants, two question types: generation failed for the first
\* type (no generated question is in the first session), the second type's
\* pre-supplied question was still asked, the second assistant was
\* processed, and the task is COMPLETED.
C14_Witness ==
  /\ pc[1] = "returned"
  /\ result[1].status = "completed"
  /\ faulty
  /\ task[1].nProducts = 2
  /\ task[1].nTypes = 2
  /\ matching[1] = {}
  /\ matching[2] = {1}
  /\ Len(sessions) = 2
  /\ Len(sessions[1].questions) = 1
  /\ sessions[1].questions[1].id = 1
  /\ Len(sessions[1].scores) = 1
  /\ Len(sessions[2].questions) = 2

\* C15: when the analyzer throws for a response, the ScoringResult of that
\* response has the five sub-scores 2 and the overall score 2, it is pushed
\* to the session under the response's id, and the pipeline goes on: the
\* next resolved question is pushed and asked, or the question type ends.
C15_AnalyzerFailureScoresNeutral ==
  (spc = "pushed" /\ faulty) =>
    /\ Len(session.scores) = 1
    /\ session.scores[1].responseId = response.id
    /\ session.scores[1].score = 2
    /\ session.scores[1].criteria.accuracy = 2
    /\ session.scores[1].criteria.completeness = 2
    /\ session.scores[1].criteria.clarity = 2
    /\ session.scores[1].criteria.usefulness = 2
    /\ session.scores[1].criteria.codeQuality = 2
    /\ IF Len(questions) > 1
       THEN /\ fpc = "ask"
            /\ qIdx = 2
            /\ session.questions[Len(session.questions)] = questions[2]
       ELSE fpc = "type" /\ typeIdx = 2

\* The analyzer threw, the neutral result was pushed, and the second
\* question is being asked.
C15_Witness ==
  /\ spc = "pushed"
  /\ faulty
  /\ fpc = "ask"
  /\ Len(session.scores) = 1
  /\ Len(session.questions) = 2

\* C16: whenever a tracker entry is removed from the running-task map, or
\* replaced in it by the entry of another execution for the same task id,
\* the entry already has isCompleted = true and a final result.
C16_NoEntryLeavesUnfinished ==
  [][\A t \in TaskIds :
       (/\ runningTasks[t] # NoEntry
        /\ \/ runningTasks'[t] = NoEntry
           \/ runningTasks'[t].createdBy # runningTasks[t].createdBy)
       => /\ runningTasks[t].isCompleted
          /\ runningTasks[t].finalResult # NoResult]_vars

\* C17: in every state in which the tracker entry of an admitted execution
\* is no longer in the running-task map, the persisted status of its task is
\* a terminal one (COMPLETED, FAILED or CANCELLED).
C17_StatusPersistedBeforeRelease ==
  \A p \in Execs :
    (/\ mine[p] # "none"
     /\ \/ runningTasks[task[p].id] = NoEntry
        \/ runningTasks[task[p].id].createdBy # p)
    => tasks[task[p].id] \in {"completed", "failed", "cancelled"}

\* C18: once cancelTask(id) has returned, with CANCELLED persisted for the
\* task, a running flow of that task starts no further target assistant.
C18_FlowStopsAfterCancel ==
  [][\A p \in Execs :
       (/\ pc[p] = "flow"
        /\ tasks[task[p].id] = "cancelled"
        /\ cancelPc[task[p].id] = "idle")
       => prodIdx'[p] = prodIdx[p]]_vars

\* C19: when processing a target assistant raises an exception (the element
\* of aiProducts is null), every later assistant is still processed: at the
\* end of the flow each of them has its session.
C19_LaterAssistantsProcessed ==
  fpc \in {"returned", "thrown"} =>
    \A i \in DOMAIN aiProducts : \A j \in DOMAIN aiProducts :
      (i < j /\ aiProducts[i] = "null" /\ aiProducts[j] = "object")
      => \E k \in 1..Len(sessions) : sessions[k].productId = j

\* C20: a failed response acquisition skips only its question: the question
\* type ends at that step only if the question was the last one resolved.
C20_FailureSkipsOneQuestion ==
  [][(fpc = "ask" /\ fpc' = "type") => qIdx = Len(questions)]_vars

\* C21: an admitted execution ends FAILED exactly when an exception has
\* left executeEvaluationFlow; a flow that returned, whatever collaborator
\* calls failed in it, ends COMPLETED, with its statistics taken from what
\* the sessions hold.
C21_FailedOnlyWhenFlowAborts ==
  (pc[1] \in {"finally", "returned"} /\ mine[1] # "none") =>
    /\ result[1].status = "failed" <=> fpc = "thrown"
    /\ result[1].status = "completed" <=> fpc = "returned"
    /\ fpc = "returned" =>
         /\ tasks[1] = "completed"
         /\ result[1].error = "none"
         /\ result[1].totalQuestions = stats[1].questions
         /\ result[1].totalResponses = stats[1].responses

\* Failed acquisitions left two questions without a response, and the run
\* is COMPLETED.
C21_Witness ==
  /\ pc[1] = "returned"
  /\ faulty
  /\ fpc = "returned"
  /\ result[1].status = "completed"
  /\ result[1].totalQuestions = 2
  /\ result[1].totalResponses = 0

\* C22: questions and responses of a session are appended in causal order.
\* In session.questions a follow-up of depth 1 comes right after the original
\* question that is its parent, and a follow-up of depth k + 1 right after
\* the follow-up of depth k of the same parent; the responses refer to the
\* questions in list order; and every step that appends a response appends
\* the answer to the last question of the list.
C22_CausalOrder ==
  /\ [](/\ \A k \in 1..Len(session.questions) :
             LET q == session.questions[k]
             IN q.followUpLevel > 0 =>
                  /\ k > 1
                  /\ session.questions[k - 1].followUpLevel
                       = q.followUpLevel - 1
                  /\ IF q.followUpLevel = 1
                     THEN session.questions[k - 1].id = q.parentQuestionId
                     ELSE session.questions[k - 1].parentQuestionId
                            = q.parentQuestionId
        /\ \A i \in 1..Len(session.responses) :
             \A j \in 1..Len(session.responses) :
               i < j =>
                 \E a \in 1..Len(session.questions) :
                   \E b \in 1..Len(session.questions) :
                     /\ a <= b
                     /\ session.questions[a].id = session.responses[i].questionId
                     /\ session.questions[b].id = session.responses[j].questionId)
  /\ [][Len(session'.responses) > Len(session.responses) =>
          /\ session'.questions = session.questions
          /\ Len(session.questions) > 0
          /\ session'.responses[Len(session'.responses)].questionId
               = session.questions[Len(session.questions)].id]_vars

\* A session with an original question, its follow-ups of depth 1, 2 and 3,
\* and the four responses.
C22_Witness ==
  /\ fpc = "done"
  /\ Len(session.questions) = 4
  /\ session.questions[1].followUpLevel = 0
  /\ session.questions[4].followUpLevel = 3
  /\ session.questions[4].parentQuestionId = session.questions[1].id
  /\ Len(session.responses) = 4

\* C23: the progress stored in a tracker entry is an integer between 0 and
\* 100, and it is 0 in an entry whose totalSteps is 0.
C23_ProgressGuarded ==
  \A t \in TaskIds :
    runningTasks[t] # NoEntry =>
      /\ runningTasks[t].progress \in 0..100
      /\ runningTasks[t].totalSteps = 0 => runningTasks[t].progress = 0

\* C24: in a session marked COMPLETED every response has exactly one score
\* whose responseId is the response's id, and every score refers to a
\* response of the session.
C24_OneScorePerResponse ==
  session.status = "completed" =>
    /\ \A i \in 1..Len(session.responses) :
         Cardinality({ k \in 1..Len(session.scores) :
                         session.scores[k].responseId
                           = session.responses[i].id }) = 1
    /\ \A k \in 1..Len(session.scores) :
         \E i \in 1..Len(session.responses) :
           session.scores[k].responseId = session.responses[i].id

\* A completed session with follow-ups, one of which was not answered:
\* four questions, three responses, three scores.
C24_Witness ==
  /\ session.status = "completed"
  /\ Len(session.questions) = 4
  /\ Len(session.responses) = 3
  /\ Len(session.scores) = 3
  /\ \E k \in 1..4 : session.questions[k].followUpLevel = 2

\* C25: the filter matches in both directions of the synonym tables: a
\* question labelled with an alias is kept for the question type that is its
\* key, and a question labelled with the key is kept for the question type
\* that is one of its aliases; so for "debugging" and each of "tiao shi",
\* "cuo wu" and "wen ti jie jue".
C25_MatchesBothDirections ==
  matched # "pending" =>
    \A e \in typeMapping \cup reverseTypeMapping
             \cup {<<<<"d", "e", "b", "u", "g", "g", "i", "n", "g">>, {<<"tiao", "shi4">>, <<"cuo", "wu">>,
                      <<"wen", "ti", "jie", "jue">>}>>} :
      \A v \in e[2] :
        (\/ qType = v /\ questionType = e[1]
         \/ qType = e[1] /\ questionType = v)
        => matched = "kept"

\* C26: for each of the five dimensions, a sub-score of the completion that
\* is null, missing, a string that is not a number, or a number outside
\* 0..4 becomes 2, an integer 0..4 is kept, and the result is scored and
\* pushed.
C26_InvalidSubScoreIsNeutral ==
  spc \in {"analyzed", "scored", "pushed"} =>
    /\ \A d \in Dimensions :
         /\ ( /\ raw[d].kind = "number"
              /\ raw[d].tenths \in {0, 10, 20, 30, 40} )
            => 10 * analysis[d] = raw[d].tenths
         /\ ( \/ raw[d].kind \in {"null", "undefined"}
              \/ raw[d].kind = "string" /\ ~raw[d].numeric
              \/ raw[d].kind = "number" /\ raw[d].tenths < 0
              \/ raw[d].kind = "number" /\ raw[d].tenths > 40 )
            => analysis[d] = 2
    /\ spc = "pushed" => Len(session.scores) = 1

\* C27: a step that marks a tracker entry complete or removes it from the
\* running-task map is a step of the execution that created the entry, in
\* its own finalization after it was admitted, or a step of cancelTask for
\* the id of the entry; never a step of a rejected call or of another
\* execution with the same task id.
C27_OnlyOwnerFinalizes ==
  [][\A t \in TaskIds :
       (/\ runningTasks[t] # NoEntry
        /\ \/ runningTasks'[t] = NoEntry
           \/ /\ runningTasks'[t].createdBy = runningTasks[t].createdBy
              /\ runningTasks'[t].isCompleted
              /\ ~runningTasks[t].isCompleted)
       => \/ cancelPc'[t] # cancelPc[t]
          \/ LET owner == runningTasks[t].createdBy
             IN /\ pc'[owner] # pc[owner]
                /\ error[owner] \notin {"validation", "capacity"}]_vars

C29_OneAcquisitionPerAssistant ==
  \A p, q \in Execs :
    (/\ p # q
     /\ interaction[p].at \in {"newPage", "driving"}
     /\ interaction[q].at \in {"newPage", "driving"})
    => interaction[p].product # interaction[q].product

\* C30: in the session the flow driver returns, the questions, responses
\* and scores lists have the same length, the i-th response answers the
\* i-th question and the i-th score rates the i-th response.
C30_ListsIndexAligned ==
  session.status = "completed" =>
    /\ Len(session.responses) = Len(session.questions)
    /\ Len(session.scores) = Len(session.responses)
    /\ \A i \in 1..Len(session.questions) :
         /\ session.responses[i].questionId = session.questions[i].id
         /\ session.scores[i].responseId = session.responses[i].id

====
